---- MODULE Spec2Model ----
(***************************************************************************)
(* Model of the Wildberries product acquisition pipeline:                  *)
(*   etl/parser/wb_client.py        (identifier normaliser, retrying       *)
(*                                   fetcher, shard locator, three getters)*)
(*   etl/parser/wb_parser_async.py  (fetch_product_raw: cascade + merger)  *)
(*                                                                         *)
(* Python values are tagged records: None/null, str (a sequence of         *)
(* one-character strings), int, list, dict (a sequence of <<key, value>>   *)
(* pairs in insertion order).                                              *)
(*                                                                         *)
(* One behaviour is one call of fetch_product_raw or of one getter; every  *)
(* HTTP request and every backoff sleep is a step.  The getters awaited by *)
(* fetch_product_raw (etl/extract/wb_client_async.py) have the loops of    *)
(* wb_client.py line for line, so one set of actions stands for both.      *)
(***************************************************************************)
EXTENDS Integers, Sequences, FiniteSets, TLC

VARIABLES
    entry,          \* the function the caller invoked
    nm_id,          \* its argument (url_or_id / nm_id)
    pc,             \* position of the call
    attempt,        \* the local `attempt` of the running getter
    idx,            \* position in `hosts` (Shard JSON) or CONTENT_V2_URLS (content)
    log,            \* HTTP requests and backoff sleeps performed so far, in order
    card_data,      \* fetch_product_raw: card_data
    info_card,      \* fetch_product_raw: info_card
    content_data,   \* fetch_product_raw: content_data
    result,         \* value returned by the invoked function
    raised,         \* exception that left the invoked function, "none" if none
    warning,        \* exception named by the last "[WARN] Request to ... failed"
                    \* line of the last attempt, "none" if it printed none
    calls,          \* how many times each getter has been called
    volume,         \* _guess_basket_hosts: its argument vol
    nm_ids,         \* collect_product_records: nm_ids, as a list
    concurrency,    \* collect_product_records: concurrency
    sem,            \* collect_product_records: free permits of `sem`
    tasks,          \* collect_product_records: state and outcome of each task
    finished,       \* collect_product_records: the tasks in the order they ended
    success_count,  \* write_products_to_jsonl: success_count
    error_count,    \* write_products_to_jsonl: error_count
    stream,         \* write_products_to_jsonl: the lines written to output_path
    dataset,        \* load_raw_products: the part files of the output directory
    state_file,     \* load_raw_products: state.parquet of the output directory
    now,            \* load_raw_products: int(time.time() * 1000) of the last run
    last_run        \* load_raw_products: what the last completed run did

\* the counters and the output file of a batch writer
writer_vars == <<success_count, error_count, stream>>

\* the output directory of the loader
loader_vars == <<dataset, state_file, now, last_run>>

\* the variables of one batch run, and those no batch run touches
batch_vars == <<nm_ids, concurrency, sem, tasks, finished, writer_vars, loader_vars>>

vars == <<entry, nm_id, pc, attempt, idx, log, card_data, info_card,
          content_data, result, raised, warning, calls, volume, batch_vars>>

\* an output directory that does not exist yet
NoOutputDirectory ==
    /\ dataset = {}
    /\ state_file = [exists |-> FALSE, ids |-> {}]
    /\ now = 0
    /\ last_run = [completed |-> FALSE, append |-> FALSE, existing_ids |-> {},
                   written |-> <<>>]

-----------------------------------------------------------------------------
(* Python values *)

None == [t |-> "null"]
JStr(s) == [t |-> "str", s |-> s]
JInt(n) == [t |-> "int", n |-> n]
JList(items) == [t |-> "list", items |-> items]
JObj(kv) == [t |-> "obj", kv |-> kv]
EmptyDict == JObj(<<>>)

IsMapping(v) == v.t = "obj"
IsStr(v) == v.t = "str"
IsInt(v) == v.t = "int"
\* isinstance(x, Sequence) and not isinstance(x, (str, bytes, bytearray))
IsSequence(v) == v.t = "list"

\* dict.get(key): None when the key is missing
RECURSIVE GetFrom(_, _, _)
GetFrom(kv, key, i) ==
    IF i > Len(kv) THEN None
    ELSE IF kv[i][1] = key THEN kv[i][2]
    ELSE GetFrom(kv, key, i + 1)

Get(obj, key) == GetFrom(obj.kv, key, 1)

\* truth value of a Python object (bool(x))
Truthy(v) ==
    CASE v.t = "null" -> FALSE
      [] v.t = "str" -> v.s # <<>>
      [] v.t = "int" -> v.n # 0
      [] v.t = "float" -> v.tenths # 0
      [] v.t = "list" -> v.items # <<>>
      [] v.t = "obj" -> v.kv # <<>>
      [] OTHER -> TRUE

-----------------------------------------------------------------------------
(* Characters and strings *)

DecimalChars == {"0", "1", "2", "3", "4", "5", "6", "7", "8", "9"}

\* regex \d and the characters int() accepts as digits
IsDecimal(c) == c \in DecimalChars

\* str.isdigit(): decimal digits and other digit characters such as the
\* superscript two, which int() rejects
IsDigitChar(c) == c \in DecimalChars \cup {"²"}

IsSpace(c) == c \in {" ", "\t", "\n"}

DigitVal(c) ==
    CASE c = "0" -> 0 [] c = "1" -> 1 [] c = "2" -> 2 [] c = "3" -> 3
      [] c = "4" -> 4 [] c = "5" -> 5 [] c = "6" -> 6 [] c = "7" -> 7
      [] c = "8" -> 8 [] c = "9" -> 9

RECURSIVE LStrip(_)
LStrip(s) == IF s # <<>> /\ IsSpace(Head(s)) THEN LStrip(Tail(s)) ELSE s

RECURSIVE RStrip(_)
RStrip(s) ==
    IF s # <<>> /\ IsSpace(s[Len(s)]) THEN RStrip(SubSeq(s, 1, Len(s) - 1)) ELSE s

\* str.strip()
Strip(s) == RStrip(LStrip(s))

\* str.isdigit()
IsDigitStr(s) == s # <<>> /\ \A i \in 1..Len(s) : IsDigitChar(s[i])

AllDecimal(s) == s # <<>> /\ \A i \in 1..Len(s) : IsDecimal(s[i])

RECURSIVE DecimalValue(_, _)
DecimalValue(s, acc) ==
    IF s = <<>> THEN acc ELSE DecimalValue(Tail(s), acc * 10 + DigitVal(Head(s)))

\* int(s) for a string of digit characters: the value, or ValueError
IntOfDigits(s) ==
    IF AllDecimal(s) THEN [exc |-> "none", n |-> DecimalValue(s, 0)]
    ELSE [exc |-> "ValueError", n |-> 0]

-----------------------------------------------------------------------------
(* Identifier normaliser *)

\* end of the maximal run of \d starting at q
RECURSIVE DigitRunEnd(_, _)
DigitRunEnd(s, q) ==
    IF q < Len(s) /\ IsDecimal(s[q + 1]) THEN DigitRunEnd(s, q + 1) ELSE q

\* NM_PATTERN matched at position p: where group 1 starts, 0 if no match.
\* (?:^|[^\d]) takes the start of the string or one non-digit; (\d+) is
\* greedy, so the run is maximal and (?:[^\d]|$) always follows it.
NmPatternGroupStart(s, p) ==
    IF p = 1 /\ Len(s) >= 1 /\ IsDecimal(s[1]) THEN 1
    ELSE IF p + 1 <= Len(s) /\ ~IsDecimal(s[p]) /\ IsDecimal(s[p + 1]) THEN p + 1
    ELSE 0

\* NM_PATTERN.search(candidate).group(1), <<>> if there is no match
NmPatternSearch(s) ==
    LET starts == {p \in 1..Len(s) : NmPatternGroupStart(s, p) # 0}
    IN  IF starts = {} THEN <<>>
        ELSE LET p == CHOOSE x \in starts : \A y \in starts : x <= y
                 q == NmPatternGroupStart(s, p)
             IN  SubSeq(s, q, DigitRunEnd(s, q))

\* extract_nm: [exc, v] with v an int value or None
extract_nm(url_or_id) ==
    IF IsInt(url_or_id)
    THEN [exc |-> "none",
          v |-> IF url_or_id.n > 0 THEN url_or_id ELSE None]
    ELSE IF IsStr(url_or_id)
    THEN LET candidate == Strip(url_or_id.s)
         IN  IF IsDigitStr(candidate)
             THEN LET value == IntOfDigits(candidate)
                  IN  IF value.exc # "none" THEN [exc |-> value.exc, v |-> None]
                      ELSE [exc |-> "none",
                            v |-> IF value.n > 0 THEN JInt(value.n) ELSE None]
             ELSE LET group == NmPatternSearch(candidate)
                  IN  IF group # <<>> /\ IntOfDigits(group).exc = "none"
                      THEN [exc |-> "none", v |-> JInt(IntOfDigits(group).n)]
                      ELSE [exc |-> "none", v |-> None]
    ELSE [exc |-> "none", v |-> None]

-----------------------------------------------------------------------------
(* Shard locator *)

MAX_BASKET_HOST == 32

_BASKET_VOL_THRESHOLDS ==
    <<143, 287, 431, 719, 1007, 1061, 1115, 1169, 1313, 1601, 1655, 1919,
      2045, 2189, 2405, 2621, 2837, 3053, 3269, 3485, 3701, 3917, 4133, 4349,
      4565, 4877, 5189, 5501, 5813, 6125, 6437>>

\* bisect.bisect_left(a, x): number of entries strictly smaller than x
\* (a is ascending), found by the library's binary search
RECURSIVE BisectLeftFrom(_, _, _, _)
BisectLeftFrom(a, x, lo, hi) ==
    IF lo >= hi THEN lo
    ELSE LET mid == (lo + hi) \div 2
         IN  IF a[mid + 1] < x THEN BisectLeftFrom(a, x, mid + 1, hi)
             ELSE BisectLeftFrom(a, x, lo, mid)

\* the binary search with its comparison turned round
RECURSIVE BisectTurnedFrom(_, _, _, _)
BisectTurnedFrom(a, x, lo, hi) ==
    IF lo >= hi THEN lo
    ELSE LET mid == (lo + hi) \div 2
         IN  IF a[mid + 1] > x THEN BisectTurnedFrom(a, x, mid + 1, hi)
             ELSE BisectTurnedFrom(a, x, lo, mid)

BisectTurned(a, x) == BisectTurnedFrom(a, x, 0, Len(a))

\* bisect.bisect_right(a, x): number of entries smaller than or equal to x
RECURSIVE BisectRightFrom(_, _, _, _)
BisectRightFrom(a, x, lo, hi) ==
    IF lo >= hi THEN lo
    ELSE LET mid == (lo + hi) \div 2
         IN  IF x < a[mid + 1] THEN BisectRightFrom(a, x, lo, mid)
             ELSE BisectRightFrom(a, x, mid + 1, hi)

bisect_right(a, x) == BisectRightFrom(a, x, 0, Len(a))

bisect_left(a, x) == BisectLeftFrom(a, x, 0, Len(a))

Min(a, b) == IF a < b THEN a ELSE b
Max(a, b) == IF a > b THEN a ELSE b

SeqContains(s, x) == \E i \in 1..Len(s) : s[i] = x

\* the loop without its range tests
RECURSIVE AppendCandidatesAnyRange(_, _)
AppendCandidatesAnyRange(candidates, rest) ==
    IF rest = <<>> THEN candidates
    ELSE IF SeqContains(candidates, Head(rest))
    THEN AppendCandidatesAnyRange(candidates, Tail(rest))
    ELSE AppendCandidatesAnyRange(Append(candidates, Head(rest)), Tail(rest))

\* the loop over (base, base - 1, base + 1, base - 2, base + 2)
RECURSIVE AppendCandidates(_, _)
AppendCandidates(candidates, rest) ==
    IF rest = <<>> THEN candidates
    ELSE LET candidate == Head(rest)
         IN  IF candidate < 1 \/ candidate > MAX_BASKET_HOST
                \/ SeqContains(candidates, candidate)
             THEN AppendCandidates(candidates, Tail(rest))
             ELSE AppendCandidates(Append(candidates, candidate), Tail(rest))

\* the estimate with the quotient rounded down
SecondaryBaseRoundedDown(vol) == Max(1, vol \div 160)

SecondaryBase(vol) == Max(1, (vol + 159) \div 160)

\* the candidates with the estimate's upper neighbours tried before the lower
GuessHostsUpFirst(vol) ==
    IF vol < 0 THEN <<9, 1, 2>>
    ELSE LET index == bisect_left(_BASKET_VOL_THRESHOLDS, vol)
             primary_host == Min(index + 1, MAX_BASKET_HOST)
             base == SecondaryBase(vol)
         IN  AppendCandidates(<<primary_host>>,
                 <<base, base + 1, base - 1, base + 2, base - 2>>)

\* the candidates without the branch for a negative volume
GuessHostsAnySign(vol) ==
    LET index == bisect_left(_BASKET_VOL_THRESHOLDS, vol)
        primary_host == Min(index + 1, MAX_BASKET_HOST)
        base == SecondaryBase(vol)
    IN  AppendCandidates(<<primary_host>>,
            <<base, base - 1, base + 1, base - 2, base + 2>>)

_guess_basket_hosts(vol) ==
    IF vol < 0 THEN <<9, 1, 2>>
    ELSE LET index == bisect_left(_BASKET_VOL_THRESHOLDS, vol)
             primary_host == Min(index + 1, MAX_BASKET_HOST)
             base == SecondaryBase(vol)
         IN  AppendCandidates(<<primary_host>>,
                 <<base, base - 1, base + 1, base - 2, base + 2>>)

\* math.ceil(vol / d) for a positive d
math_ceil(vol, d) == -((-vol) \div d)

\* the arithmetic-only locator without its guard on non-positive volumes
ArithmeticHostsUnguarded(vol) ==
    LET base == Max(1, math_ceil(vol, 160))
    IN  AppendCandidates(<<>>, <<base, base - 1, base + 1, base - 2, base + 2>>)

\* _guess_basket_hosts of src/wildberries_client.py: no threshold table, the
\* candidates are the arithmetic estimate and its neighbours
wildberries_client_guess_basket_hosts(vol) ==
    IF vol <= 0 THEN <<9, 1, 2>>
    ELSE LET base == Max(1, math_ceil(vol, 160))
         IN  AppendCandidates(<<>>, <<base, base - 1, base + 1, base - 2, base + 2>>)

-----------------------------------------------------------------------------
(* Retrying fetcher: one attempt *)

MAX_RETRIES == 4

\* the two content URLs in the other order
ContentUrlsSwapped == <<"v1", "v2">>

\* CONTENT_V2_URLS: the v2 URL, then the v1 URL
CONTENT_V2_URLS == <<"v2", "v1">>

\* What one requests.get can meet: a transport failure, or a response with a
\* status and a body that is a JSON document or is not JSON at all.
NotJson == [t |-> "notjson"]
TransportFailure == [kind |-> "transport", status |-> 0, body |-> NotJson]
HttpResponse(status, body) == [kind |-> "http", status |-> status, body |-> body]

\* the exception classes of the try block and their bases
ExceptionBases(exc) ==
    CASE exc = "ConnectionError" -> {"ConnectionError", "RequestException"}
      [] exc = "HTTPError" -> {"HTTPError", "RequestException"}
      [] exc = "JSONDecodeError" -> {"JSONDecodeError", "ValueError"}
      [] OTHER -> {exc}

\* requests.get(...); response.raise_for_status(); response.json()
TryBlockException(resp) ==
    IF resp.kind = "transport" THEN "ConnectionError"
    ELSE IF resp.status >= 400 THEN "HTTPError"
    ELSE IF resp.body = NotJson THEN "JSONDecodeError"
    ELSE "none"

\* an except clause that names RequestException alone
CatchesRequestException == {"RequestException"}

\* except (RequestException, ValueError)
SingleRequestCatches == {"RequestException", "ValueError"}

\* _single_request: the decoded body, None after a caught failure, or the
\* exception that escapes
_single_request(resp) ==
    LET exc == TryBlockException(resp)
    IN  IF exc = "none" THEN [exc |-> "none", data |-> resp.body, warn |-> "none"]
        ELSE IF ExceptionBases(exc) \cap SingleRequestCatches # {}
        THEN [exc |-> "none", data |-> None, warn |-> exc]
        ELSE [exc |-> exc, data |-> None, warn |-> "none"]

\* a loop that allows one attempt more
AfterAttemptOneMore(data, att) ==
    IF data # None THEN "return"
    ELSE IF att < MAX_RETRIES + 1 THEN "sleep"
    ELSE "exhausted"

\* _request_with_retries after one attempt: return the payload, sleep and go
\* on, or fall out of the loop
AfterAttempt(data, att) ==
    IF data # None THEN "return"
    ELSE IF att < MAX_RETRIES THEN "sleep"
    ELSE "exhausted"

\* a probe loop without the attempt budget
AfterProbeNoBudget(data, att) == IF data # None THEN "return" ELSE "sleep"

\* get_info_card_json after one probe
AfterProbe(data, att) ==
    IF data # None THEN "return"
    ELSE IF att >= MAX_RETRIES THEN "exhausted"
    ELSE "sleep"

\* get_content_v2 after one request to CONTENT_V2_URLS[url]
AfterContentRequest(data, att, url) ==
    IF data # None THEN "return"
    ELSE IF url < Len(CONTENT_V2_URLS) THEN "next_url"
    ELSE IF att = MAX_RETRIES THEN "exhausted"
    ELSE "sleep"

-----------------------------------------------------------------------------
(* Record normaliser / merger *)

JFloat(tenths) == [t |-> "float", tenths |-> tenths]
JInf == [t |-> "inf"]
Raise(exc) == [t |-> "raise", exc |-> exc]
IsRaise(v) == v.t = "raise"

_ensure_mapping(value) == IF IsMapping(value) THEN value ELSE EmptyDict

RECURSIVE FirstMappingFrom(_, _)
FirstMappingFrom(items, i) ==
    IF i > Len(items) THEN None
    ELSE IF IsMapping(items[i]) THEN items[i]
    ELSE FirstMappingFrom(items, i + 1)

\* the first mapping of `products`, when that is a list
FirstProduct(products) ==
    IF IsSequence(products) THEN FirstMappingFrom(products.items, 1) ELSE None

ProductsOf(data) == IF IsMapping(data) THEN FirstProduct(Get(data, "products")) ELSE None

_extract_primary_product(card) == ProductsOf(Get(card, "data"))

Negated(negative, n) == IF negative THEN 0 - n ELSE n

\* an optionally signed run of decimal digits, already stripped
SignedDecimal(c) ==
    IF c # <<>> /\ Head(c) \in {"+", "-"}
    THEN IF AllDecimal(Tail(c))
         THEN JInt(Negated(Head(c) = "-", DecimalValue(Tail(c), 0)))
         ELSE Raise("ValueError")
    ELSE IF AllDecimal(c) THEN JInt(DecimalValue(c, 0))
    ELSE Raise("ValueError")

\* int(s) for a str: surrounding whitespace and one sign are accepted
IntOfStr(s) == SignedDecimal(Strip(s))

\* truncation towards zero of a float given in tenths
TruncTenths(n) == IF n >= 0 THEN n \div 10 ELSE 0 - ((0 - n) \div 10)

\* int(value)
PyInt(value) ==
    CASE value.t = "int" -> value
      [] value.t = "float" -> JInt(TruncTenths(value.tenths))
      [] value.t = "inf" -> Raise("OverflowError")
      [] value.t = "str" -> IntOfStr(value.s)
      [] OTHER -> Raise("TypeError")

\* position of the first "." of body, 0 if there is none
RECURSIVE DotAt(_, _)
DotAt(body, i) ==
    IF i > Len(body) THEN 0 ELSE IF body[i] = "." THEN i ELSE DotAt(body, i + 1)

\* digits[.digit] with the "." at position dot
UnsignedTenths(body, dot) ==
    IF dot = 0
    THEN IF AllDecimal(body) THEN JFloat(DecimalValue(body, 0) * 10)
         ELSE Raise("ValueError")
    ELSE IF AllDecimal(SubSeq(body, 1, dot - 1)) /\ dot = Len(body) - 1
            /\ IsDecimal(body[Len(body)])
    THEN JFloat(DecimalValue(SubSeq(body, 1, dot - 1), 0) * 10
                + DigitVal(body[Len(body)]))
    ELSE Raise("ValueError")

NegatedFloat(negative, f) ==
    IF IsRaise(f) THEN f ELSE JFloat(Negated(negative, f.tenths))

SignedTenths(c) ==
    IF c # <<>> /\ Head(c) \in {"+", "-"}
    THEN NegatedFloat(Head(c) = "-", UnsignedTenths(Tail(c), DotAt(Tail(c), 1)))
    ELSE UnsignedTenths(c, DotAt(c, 1))

\* float(s) for a str of the form [sign]digits[.digit]
FloatOfStr(s) == SignedTenths(Strip(s))

\* float(value)
PyFloat(value) ==
    CASE value.t = "int" -> JFloat(value.n * 10)
      [] value.t = "float" -> value
      [] value.t = "inf" -> value
      [] value.t = "str" -> FloatOfStr(value.s)
      [] OTHER -> Raise("TypeError")

\* except (TypeError, ValueError): return None
SoftConversion(v) ==
    IF IsRaise(v) /\ v.exc \in {"TypeError", "ValueError"} THEN None ELSE v

IntOfValue(value) == IF IsInt(value) THEN value ELSE SoftConversion(PyInt(value))

_extract_int(data, key) == IntOfValue(Get(data, key))

FloatOfValue(value) ==
    IF value.t \in {"int", "float", "inf"} THEN PyFloat(value)
    ELSE SoftConversion(PyFloat(value))

_extract_float(data, key) == FloatOfValue(Get(data, key))

DigitChar(n) == <<"0", "1", "2", "3", "4", "5", "6", "7", "8", "9">>[n + 1]

RECURSIVE DigitsOfNat(_)
DigitsOfNat(n) ==
    IF n < 10 THEN <<DigitChar(n)>>
    ELSE Append(DigitsOfNat(n \div 10), DigitChar(n % 10))

\* str(value) for the values a text field is given in the modelled payloads
PyStr(value) ==
    CASE value.t = "int" ->
            IF value.n < 0 THEN <<"-">> \o DigitsOfNat(0 - value.n)
            ELSE DigitsOfNat(value.n)
      [] value.t = "list" /\ value.items = <<>> -> <<"[", "]">>
      [] value.t = "obj" /\ value.kv = <<>> -> <<"{", "}">>
      [] OTHER -> <<"<", value.t, ">">>

\* the stripped string kept even when it is empty
StrippedAsIs(stripped) == JStr(stripped)

\* stripped or None
NonEmptyOrNone(stripped) == IF stripped # <<>> THEN JStr(stripped) ELSE None

_normalize_string(value) ==
    IF value = None THEN None
    ELSE IF IsStr(value) THEN NonEmptyOrNone(Strip(value.s))
    ELSE JStr(PyStr(value))

\* isinstance(value, str) and value.strip()
IsNonBlankStr(value) == IsStr(value) /\ Strip(value.s) # <<>>

\* `a or b`
PyOr(a, b) == IF IsRaise(a) \/ Truthy(a) THEN a ELSE b

\* `x if found else rest`
FoundOr(found, rest) == IF Truthy(found) THEN found ELSE rest

\* dict.values()
ValuesOf(kv) == [i \in 1..Len(kv) |-> kv[i][2]]

\* _find_first_string on a dict: the keys in order, then the values depth first;
\* on a list: the items depth first
RECURSIVE _find_first_string(_, _)
RECURSIVE FirstKeyString(_, _, _)
RECURSIVE FirstNestedString(_, _, _)

FirstKeyString(data, keys, i) ==
    IF i > Len(keys) THEN None
    ELSE IF IsNonBlankStr(Get(data, keys[i])) THEN Get(data, keys[i])
    ELSE FirstKeyString(data, keys, i + 1)

FirstNestedString(values, keys, i) ==
    IF i > Len(values) THEN None
    ELSE FoundOr(_find_first_string(values[i], keys),
                 FirstNestedString(values, keys, i + 1))

_find_first_string(data, keys) ==
    IF IsMapping(data)
    THEN FoundOr(FirstKeyString(data, keys, 1),
                 FirstNestedString(ValuesOf(data.kv), keys, 1))
    ELSE IF IsSequence(data) THEN FirstNestedString(data.items, keys, 1)
    ELSE None

DescriptionKeys == <<"description", "descriptionText", "description_html", "text">>

DirectOr(direct, rest) == IF IsNonBlankStr(direct) THEN direct ELSE rest

\* the Shard JSON description searched under every description key
BasketDescriptionAnyKey(data) ==
    DirectOr(Get(data, "description"), _find_first_string(data, DescriptionKeys))

_extract_description_from_basket(data) ==
    DirectOr(Get(data, "description"), _find_first_string(data, <<"description">>))

\* the loops over data.products, data.cards, data.list and their entries
RECURSIVE FirstEntryDescription(_, _)
FirstEntryDescription(entries, i) ==
    IF i > Len(entries) THEN None
    ELSE FoundOr(IF IsMapping(entries[i])
                 THEN _find_first_string(entries[i], DescriptionKeys)
                 ELSE None,
                 FirstEntryDescription(entries, i + 1))

EntriesDescription(entries) ==
    IF IsSequence(entries) THEN FirstEntryDescription(entries.items, 1) ELSE None

RECURSIVE FirstListDescription(_, _, _)
FirstListDescription(nested, listKeys, i) ==
    IF i > Len(listKeys) THEN None
    ELSE FoundOr(EntriesDescription(Get(nested, listKeys[i])),
                 FirstListDescription(nested, listKeys, i + 1))

\* the `if isinstance(nested, Mapping)` block
NestedDescription(nested) ==
    IF IsMapping(nested)
    THEN FoundOr(FirstListDescription(nested, <<"products", "cards", "list">>, 1),
                 _find_first_string(nested, DescriptionKeys))
    ELSE None

\* the Secondary API description without the direct look at the top level
ContentDescriptionListsFirst(data) ==
    IF ~Truthy(data) THEN None
    ELSE FoundOr(NestedDescription(Get(data, "data")),
                 _find_first_string(data, DescriptionKeys))

_extract_description_from_content(data) ==
    IF ~Truthy(data) THEN None
    ELSE DirectOr(Get(data, "description"),
                  FoundOr(NestedDescription(Get(data, "data")),
                          _find_first_string(data, DescriptionKeys)))

\* the conversion of `basic` or `sale`: int(float(s)) for a non-blank str,
\* int(x) for a number, None otherwise; ValueError is caught
IntOfFloat(f) == IF IsRaise(f) THEN None ELSE PyInt(f)

PriceInt(value) ==
    IF IsNonBlankStr(value) THEN IntOfFloat(FloatOfStr(value.s))
    ELSE IF value.t \in {"int", "float", "inf"} THEN SoftConversion(PyInt(value))
    ELSE None

\* an entry that counts only when it gives both values
EntryPricesBoth(basic_int, sale_int) ==
    IF IsRaise(basic_int) THEN basic_int
    ELSE IF IsRaise(sale_int) THEN sale_int
    ELSE IF basic_int # None /\ sale_int # None
    THEN [t |-> "pair", basic |-> basic_int, sale |-> sale_int]
    ELSE None

\* what one sizes entry with a price mapping gives: the pair, a raise, or
\* None to go on with the next entry
EntryPrices(basic_int, sale_int) ==
    IF IsRaise(basic_int) THEN basic_int
    ELSE IF IsRaise(sale_int) THEN sale_int
    ELSE IF basic_int # None \/ sale_int # None
    THEN [t |-> "pair", basic |-> basic_int, sale |-> sale_int]
    ELSE None

PriceInfoPrices(price_info) ==
    IF ~IsMapping(price_info) THEN None
    ELSE EntryPrices(PriceInt(Get(price_info, "basic")),
                     PriceInt(PyOr(Get(price_info, "product"),
                                   Get(price_info, "total"))))

NoPrices == [t |-> "pair", basic |-> None, sale |-> None]

RECURSIVE PricesFromEntries(_, _)
PricesFromEntries(entries, i) ==
    IF i > Len(entries) THEN NoPrices
    ELSE IF ~IsMapping(entries[i]) THEN PricesFromEntries(entries, i + 1)
    ELSE FoundOr(PriceInfoPrices(Get(entries[i], "price")),
                 PricesFromEntries(entries, i + 1))

\* _extract_prices_from_sizes: (basic_int, sale_int), or the exception raised
_extract_prices_from_sizes(sizes) ==
    IF ~IsSequence(sizes) THEN NoPrices ELSE PricesFromEntries(sizes.items, 1)

\* the first key of `keys` whose normalised value is truthy
RECURSIVE FirstNamedKey(_, _, _)
FirstNamedKey(item, keys, i) ==
    IF i > Len(keys) THEN None
    ELSE FoundOr(_normalize_string(Get(item, keys[i])),
                 FirstNamedKey(item, keys, i + 1))

\* a list that keeps the empty candidates as empty strings
AppendAlways(candidate) == IF IsStr(candidate) THEN <<candidate.s>> ELSE << <<>> >>

\* values.append(candidate) if candidate
AppendIf(candidate) == IF Truthy(candidate) THEN <<candidate.s>> ELSE <<>>

RECURSIVE NamedValues(_, _, _)
NamedValues(items, keys, i) ==
    IF i > Len(items) THEN <<>>
    ELSE AppendIf(IF IsMapping(items[i]) THEN FirstNamedKey(items[i], keys, 1)
                  ELSE _normalize_string(items[i]))
         \o NamedValues(items, keys, i + 1)

_extract_named_list(items, keys) ==
    IF ~IsSequence(items) THEN <<>> ELSE NamedValues(items.items, keys, 1)

\* the loop over product["images"]
RECURSIVE ExplicitImageValues(_, _)
ExplicitImageValues(items, i) ==
    IF i > Len(items) THEN <<>>
    ELSE AppendIf(_normalize_string(items[i])) \o ExplicitImageValues(items, i + 1)

ExplicitImages(images) ==
    IF IsSequence(images) THEN ExplicitImageValues(images.items, 1) ELSE <<>>

\* one synthesised URL: the values the template is formatted with
ImageUrl(vol, part, nm, index) ==
    [t |-> "url", vol |-> vol, part |-> part, nm |-> nm, index |-> index]

\* the `pics` / `photo_count` contribution to `count`
CountWith(count, n) == IF Truthy(n) THEN Max(count, n.n) ELSE count

SynthesizedImages(nm, count) ==
    IF count <= 0 THEN JList(<<>>)
    ELSE JList([i \in 1..count |->
                   ImageUrl(IF nm >= 0 THEN nm \div 100000 ELSE 0,
                            IF nm >= 0 THEN nm \div 1000 ELSE 0, nm, i)])

CountedImages(nm, pics, photo_count) ==
    IF IsRaise(pics) THEN pics
    ELSE IF IsRaise(photo_count) THEN photo_count
    ELSE SynthesizedImages(nm, CountWith(CountWith(0, pics), photo_count))

ExplicitOr(explicit_images, rest) ==
    IF explicit_images # <<>>
    THEN JList([i \in 1..Len(explicit_images) |-> JStr(explicit_images[i])])
    ELSE rest

PhotoCount(media) == IF IsMapping(media) THEN _extract_int(media, "photo_count") ELSE None

\* _build_image_urls: the list, or the exception raised
_build_image_urls(nm, product, info) ==
    IF nm = None THEN JList(<<>>)
    ELSE ExplicitOr(
             IF Truthy(product) THEN ExplicitImages(Get(product, "images")) ELSE <<>>,
             CountedImages(nm.n,
                 IF Truthy(product) THEN _extract_int(product, "pics") ELSE None,
                 PhotoCount(Get(info, "media"))))

\* "\n".join(parts)
RECURSIVE JoinLines(_)
JoinLines(parts) ==
    IF parts = <<>> THEN <<>>
    ELSE IF Len(parts) = 1 THEN parts[1]
    ELSE parts[1] \o <<"\n">> \o JoinLines(Tail(parts))

\* [part for part in values if part]
RECURSIVE TruthyParts(_)
TruthyParts(values) ==
    IF values = <<>> THEN <<>>
    ELSE AppendIf(Head(values)) \o TruthyParts(Tail(values))

\* `f(product) if product else None`
IntField(product, key) == IF Truthy(product) THEN _extract_int(product, key) ELSE None
TextField(product, key) ==
    IF Truthy(product) THEN _normalize_string(Get(product, key)) ELSE None

\* an id taken from the primary product alone
ProductIdNoFallback(own_id, nm_int) == own_id

\* product_id = _extract_int(product, "id"), nm_int if that is None
ProductId(own_id, nm_int) == IF own_id = None THEN nm_int ELSE own_id

\* the `if price is None or sale_price is None` block was not entered
NotDerived == [t |-> "notderived"]

\* the derived prices of the `if price is None or sale_price is None` block
MergedPrices(product, priceU, salePriceU) ==
    IF Truthy(product) /\ (priceU = None \/ salePriceU = None)
       /\ ~IsRaise(priceU) /\ ~IsRaise(salePriceU)
    THEN _extract_prices_from_sizes(Get(product, "sizes"))
    ELSE NotDerived

\* `price = price or derived_price`, inside that `if` only
PriceWith(own, derived, side) ==
    IF IsRaise(derived) THEN derived
    ELSE IF derived = NotDerived THEN own
    ELSE IF side = "basic" THEN PyOr(own, derived.basic)
    ELSE PyOr(own, derived.sale)

\* the first exception raised among the evaluated fields, None if none
RECURSIVE FirstRaise(_)
FirstRaise(values) ==
    IF values = <<>> THEN None
    ELSE IF IsRaise(Head(values)) THEN Head(values)
    ELSE FirstRaise(Tail(values))

\* ProductRaw(...) from the evaluated fields
BuildProductRaw(f, sources, derived, description) ==
    [t |-> "ProductRaw",
     id |-> f.id,
     name |-> f.name,
     brand |-> f.brand,
     supplier |-> f.supplier,
     description |-> description,
     sources |-> sources,
     price |-> PriceWith(f.priceU, derived, "basic"),
     sale_price |-> PriceWith(f.salePriceU, derived, "sale"),
     rating |-> f.rating,
     feedbacks |-> f.feedbacks,
     category_id |-> f.category_id,
     category_parent_id |-> f.category_parent_id,
     root |-> f.root,
     kind_id |-> f.kind_id,
     colors |-> f.colors,
     sizes |-> f.sizes,
     image_urls |-> f.image_urls.items,
     text_index |-> JoinLines(TruthyParts(<<f.name, f.brand, f.supplier, description>>))]

RaisedOr(exc, product) == IF exc # None THEN exc ELSE product

MergeFields(f, sources, derived, description) ==
    RaisedOr(FirstRaise(<<f.id, f.priceU, f.salePriceU, f.rating, f.feedbacks,
                          f.category_id, f.category_parent_id, f.root, f.kind_id,
                          derived, f.image_urls>>),
             BuildProductRaw(f, sources, derived, description))

MergeWithPrices(f, product, sources, description) ==
    MergeFields(f, sources, MergedPrices(product, f.priceU, f.salePriceU), description)

\* the fields fetch_product_raw reads from the primary product
ProductFields(nm_int, product, info) ==
    [id |-> ProductId(IntField(product, "id"), nm_int),
     name |-> TextField(product, "name"),
     brand |-> TextField(product, "brand"),
     supplier |-> TextField(product, "supplier"),
     priceU |-> IntField(product, "priceU"),
     salePriceU |-> IntField(product, "salePriceU"),
     rating |-> IF Truthy(product)
                THEN PyOr(_extract_float(product, "reviewRating"),
                          _extract_float(product, "rating"))
                ELSE None,
     feedbacks |-> IntField(product, "feedbacks"),
     category_id |-> IntField(product, "subjectId"),
     category_parent_id |-> IntField(product, "subjectParentId"),
     root |-> IntField(product, "root"),
     kind_id |-> IntField(product, "kindId"),
     colors |-> IF Truthy(product)
                THEN _extract_named_list(Get(product, "colors"), <<"name">>)
                ELSE <<>>,
     sizes |-> IF Truthy(product)
               THEN _extract_named_list(Get(product, "sizes"), <<"name", "origName">>)
               ELSE <<>>,
     image_urls |-> _build_image_urls(nm_int, product, info)]

MergeProduct(nm_int, product, sources, description) ==
    MergeWithPrices(ProductFields(nm_int, product, sources.info_card_json),
                    product, sources, description)

\* The normalisation and merge of fetch_product_raw: the ProductRaw built from
\* the three payloads, or the exception a conversion raises.
ProductRaw(nm_int, card, info, content, description) ==
    MergeProduct(nm_int, _extract_primary_product(card),
                 [card_api |-> card, info_card_json |-> info, content_v2 |-> content],
                 description)

-----------------------------------------------------------------------------
(* What the caller passes and what the servers answer *)

Inputs ==
    { JInt(-1), JInt(0), JInt(32000000), JInt(480000000),
      JStr(<<"b", "a", "d">>), JStr(<<"x", "/", "9", "9", "9">>),
      JStr(<<"²">>), None }

Dict1(k, v) == JObj(<< <<k, v>> >>)

ProductItem ==
    JObj(<< <<"id", JInt(100)>>, <<"name", JStr(<<"I", "t", "e", "m">>)>>,
            <<"brand", JStr(<<" ", "B", " ">>)>>, <<"supplier", JStr(<<>>)>>,
            <<"priceU", JInt(1500)>>, <<"pics", JInt(2)>> >>)

ProductNoId ==
    JObj(<< <<"id", JStr(<<"b", "a", "d">>)>>, <<"name", JStr(<<" ", " ">>)>> >>)

\* a product whose id is the JSON number 1e999, which json decodes to inf
ProductOverflow == Dict1("id", JInf)

CardPayloads ==
    { EmptyDict,
      Dict1("unexpected", JList(<<>>)),
      Dict1("data", Dict1("products", JList(<<ProductItem>>))),
      Dict1("data", Dict1("products", JList(<<ProductNoId>>))),
      Dict1("data", Dict1("products", JList(<<ProductOverflow>>))),
      JList(<<>>),
      None }

InfoPayloads ==
    { EmptyDict,
      JObj(<< <<"description", JStr(<<"i", "n", "f", "o">>)>>,
              <<"media", Dict1("photo_count", JInt(3))>> >>),
      JObj(<< <<"description", JStr(<<" ", " ">>)>>,
              <<"media", Dict1("photo_count", JInt(2))>> >>),
      Dict1("info", Dict1("description", JStr(<<"d", "e", "s", "c">>))),
      Dict1("descriptionText", JStr(<<"t", "x", "t">>)),
      None }

ContentPayloads ==
    { EmptyDict,
      Dict1("description", JStr(<<"D", "i", "r">>)),
      Dict1("data", Dict1("products",
          JList(<<Dict1("descriptionText", JStr(<<"N", "e", "s", "t">>))>>))),
      JList(<<>>),
      None }

Payloads(src) ==
    CASE src = "card" -> CardPayloads
      [] src = "info" -> InfoPayloads
      [] src = "content" -> ContentPayloads

\* status codes, within the 100..599 of RFC 9110
Statuses == {200, 399, 400}

Responses(src) ==
    {TransportFailure}
    \cup {HttpResponse(st, b) : st \in Statuses, b \in Payloads(src) \cup {NotJson}}

Entries == {"fetch_product_raw", "get_card_api", "get_info_card_json", "get_content_v2"}

-----------------------------------------------------------------------------
(* The calls *)

\* one HTTP request: the getter, its attempt number, the host or URL asked,
\* the nm of the query and the decoded body (None for a failed attempt)
Request(src, n, target, nm, data) ==
    [e |-> "req", src |-> src, n |-> n, target |-> target, nm |-> nm,
     ok |-> data # None, data |-> data]

\* a sleep that is handed the number of the coming attempt
SleepForNextAttempt(src, n) ==
    [e |-> "sleep", src |-> src, n |-> n + 1, target |-> 0, nm |-> 0,
     ok |-> FALSE, data |-> None]

\* _sleep_with_backoff(attempt)
Sleep(src, n) ==
    [e |-> "sleep", src |-> src, n |-> n, target |-> 0, nm |-> 0,
     ok |-> FALSE, data |-> None]

\* no getter has been called yet
NoCalls == [card |-> 0, info |-> 0, content |-> 0]

Init ==
    /\ entry \in Entries
    /\ nm_id \in Inputs
    /\ pc = entry
    /\ attempt = 0
    /\ idx = 0
    /\ log = <<>>
    /\ card_data = None
    /\ info_card = None
    /\ content_data = None
    /\ result = None
    /\ raised = "none"
    /\ warning = "none"
    /\ calls = NoCalls
    /\ volume = 0
    /\ nm_ids = <<>>
    /\ concurrency = 0
    /\ sem = 0
    /\ tasks = <<>>
    /\ finished = <<>>
    /\ success_count = 0
    /\ error_count = 0
    /\ stream = <<>>
    /\ NoOutputDirectory

\* an exception leaves the invoked function
Raises(exc) ==
    /\ pc' = "raised"
    /\ raised' = exc
    /\ UNCHANGED result

\* the invoked function returns
Returns(value) ==
    /\ pc' = "done"
    /\ result' = value
    /\ UNCHANGED raised

\* fetch_product_raw, from the last payload to `return ProductRaw(...)`
ReturnOrRaise(product) ==
    IF IsRaise(product) THEN Raises(product.exc) ELSE Returns(product)

ReturnRecord(info, content, description) ==
    ReturnOrRaise(ProductRaw(extract_nm(nm_id).v, card_data, info, content, description))

\* get_card_api returns `data`; in fetch_product_raw the id, name, brand and
\* supplier are taken from it before the Shard JSON step starts
CardReturns(data) ==
    IF entry = "get_card_api"
    THEN Returns(data) /\ UNCHANGED card_data
    ELSE /\ card_data' = _ensure_mapping(data)
         /\ IF IsRaise(IntField(_extract_primary_product(card_data'), "id"))
            THEN Raises("OverflowError")
            ELSE pc' = "get_info_card_json" /\ UNCHANGED <<result, raised>>

\* a cascade that asks the secondary source whatever the Shard JSON gave
NeedsContentAlways(description) == TRUE

\* a cascade that never asks the secondary source
NeedsContentNever(description) == FALSE

\* fetch_product_raw: `if not description` after the Shard JSON step
NeedsContent(description) == ~Truthy(description)

\* get_info_card_json returns `data`; fetch_product_raw calls get_content_v2
\* only `if not description`
InfoReturns(data) ==
    IF entry = "get_info_card_json"
    THEN Returns(data) /\ UNCHANGED <<info_card, content_data>>
    ELSE /\ info_card' = _ensure_mapping(data)
         /\ content_data' = EmptyDict
         /\ IF NeedsContent(_extract_description_from_basket(info_card'))
            THEN pc' = "get_content_v2" /\ UNCHANGED <<result, raised>>
            ELSE ReturnRecord(info_card', EmptyDict,
                              _extract_description_from_basket(info_card'))

\* get_content_v2 returns `data`
ContentReturns(data) ==
    IF entry = "get_content_v2"
    THEN Returns(data) /\ UNCHANGED content_data
    ELSE /\ content_data' = _ensure_mapping(data)
         /\ ReturnRecord(info_card, content_data',
                         _extract_description_from_content(content_data'))

\* the local `nm` of a getter that got past its guard
Nm == extract_nm(nm_id).v.n

\* fetch_product_raw: nm_int = extract_nm(nm_id), then the call of get_card_api
fetch_product_raw ==
    /\ pc = "fetch_product_raw"
    /\ IF extract_nm(nm_id).exc # "none"
       THEN Raises(extract_nm(nm_id).exc)
       ELSE pc' = "get_card_api" /\ UNCHANGED <<result, raised>>
    /\ UNCHANGED <<calls, volume, batch_vars>>
    /\ UNCHANGED <<entry, nm_id, attempt, idx, log, card_data, info_card,
                   content_data, warning>>

\* get_card_api up to the call of _request_with_retries
get_card_api ==
    /\ pc = "get_card_api"
    /\ LET nm == extract_nm(nm_id)
       IN  IF nm.exc = "none" /\ nm.v = None
           THEN CardReturns(EmptyDict) /\ UNCHANGED attempt
           ELSE IF nm.exc # "none"
           THEN Raises(nm.exc) /\ UNCHANGED <<attempt, card_data>>
           ELSE /\ pc' = "_request_with_retries"
                /\ attempt' = 1
                /\ UNCHANGED <<result, raised, card_data>>
    /\ calls' = [calls EXCEPT !.card = @ + 1]
    /\ UNCHANGED <<volume, batch_vars>>
    /\ UNCHANGED <<entry, nm_id, idx, log, info_card, content_data, warning>>

\* _request_with_retries: one pass of the loop body up to the sleep
_request_with_retries ==
    /\ pc = "_request_with_retries"
    /\ \E resp \in Responses("card") :
        LET r == _single_request(resp)
        IN  /\ log' = Append(log, Request("card", attempt, 0, Nm, r.data))
            /\ warning' = r.warn
            /\ IF r.exc # "none" THEN Raises(r.exc) /\ UNCHANGED card_data
               ELSE IF AfterAttempt(r.data, attempt) = "sleep"
               THEN pc' = "card_sleep" /\ UNCHANGED <<result, raised, card_data>>
               ELSE CardReturns(IF r.data # None THEN r.data ELSE EmptyDict)
    /\ UNCHANGED <<calls, volume, batch_vars>>
    /\ UNCHANGED <<entry, nm_id, attempt, idx, info_card, content_data>>

\* _request_with_retries: _sleep_with_backoff(attempt) and the next pass
CardSleep ==
    /\ pc = "card_sleep"
    /\ log' = Append(log, Sleep("card", attempt))
    /\ attempt' = attempt + 1
    /\ pc' = "_request_with_retries"
    /\ UNCHANGED <<calls, volume, batch_vars>>
    /\ UNCHANGED <<entry, nm_id, idx, card_data, info_card, content_data, result,
                   raised, warning>>

\* hosts = _guess_basket_hosts(vol) of the running call
Hosts == _guess_basket_hosts(Nm \div 100000)

\* the next position of `hosts` at or after i that the loop does not skip
RECURSIVE NextHost(_, _)
NextHost(hosts, i) ==
    IF i > Len(hosts) THEN i
    ELSE IF hosts[i] < 1 \/ hosts[i] > MAX_BASKET_HOST THEN NextHost(hosts, i + 1)
    ELSE i

\* get_info_card_json up to the first probe
get_info_card_json ==
    /\ pc = "get_info_card_json"
    /\ LET nm == extract_nm(nm_id)
       IN  IF nm.exc # "none"
           THEN Raises(nm.exc) /\ UNCHANGED <<attempt, idx, info_card, content_data>>
           ELSE IF nm.v = None \/ NextHost(Hosts, 1) > Len(Hosts)
           THEN InfoReturns(EmptyDict) /\ UNCHANGED <<attempt, idx>>
           ELSE /\ pc' = "info_probe"
                /\ attempt' = 0
                /\ idx' = NextHost(Hosts, 1)
                /\ UNCHANGED <<result, raised, info_card, content_data>>
    /\ calls' = [calls EXCEPT !.info = @ + 1]
    /\ UNCHANGED <<volume, batch_vars>>
    /\ UNCHANGED <<entry, nm_id, log, card_data, warning>>

\* get_info_card_json: one pass of the loop body up to the sleep
InfoProbe ==
    /\ pc = "info_probe"
    /\ attempt' = attempt + 1
    /\ \E resp \in Responses("info") :
        LET r == _single_request(resp)
        IN  /\ log' = Append(log, Request("info", attempt', Hosts[idx], Nm, r.data))
            /\ warning' = r.warn
            /\ IF r.exc # "none"
               THEN Raises(r.exc) /\ UNCHANGED <<info_card, content_data>>
               ELSE IF AfterProbe(r.data, attempt') = "sleep"
               THEN pc' = "info_sleep"
                    /\ UNCHANGED <<result, raised, info_card, content_data>>
               ELSE InfoReturns(IF r.data # None THEN r.data ELSE EmptyDict)
    /\ UNCHANGED <<calls, volume, batch_vars>>
    /\ UNCHANGED <<entry, nm_id, idx, card_data>>

\* get_info_card_json: _sleep_with_backoff(attempt), then the next host or the
\* end of the loop
InfoSleep ==
    /\ pc = "info_sleep"
    /\ log' = Append(log, Sleep("info", attempt))
    /\ idx' = NextHost(Hosts, idx + 1)
    /\ IF idx' > Len(Hosts) THEN InfoReturns(EmptyDict)
       ELSE pc' = "info_probe" /\ UNCHANGED <<result, raised, info_card, content_data>>
    /\ UNCHANGED <<calls, volume, batch_vars>>
    /\ UNCHANGED <<entry, nm_id, attempt, card_data, warning>>

\* get_content_v2 up to the first request
get_content_v2 ==
    /\ pc = "get_content_v2"
    /\ LET nm == extract_nm(nm_id)
       IN  IF nm.exc # "none"
           THEN Raises(nm.exc) /\ UNCHANGED <<attempt, idx, content_data>>
           ELSE IF nm.v = None
           THEN ContentReturns(EmptyDict) /\ UNCHANGED <<attempt, idx>>
           ELSE /\ pc' = "content_request"
                /\ attempt' = 1
                /\ idx' = 1
                /\ UNCHANGED <<result, raised, content_data>>
    /\ calls' = [calls EXCEPT !.content = @ + 1]
    /\ UNCHANGED <<volume, batch_vars>>
    /\ UNCHANGED <<entry, nm_id, log, card_data, info_card, warning>>

\* get_content_v2: one request of the inner loop and what follows it
ContentRequest ==
    /\ pc = "content_request"
    /\ \E resp \in Responses("content") :
        LET r == _single_request(resp)
        IN  /\ log' = Append(log, Request("content", attempt, CONTENT_V2_URLS[idx], Nm, r.data))
            /\ warning' = r.warn
            /\ IF r.exc # "none"
               THEN Raises(r.exc) /\ UNCHANGED <<idx, content_data>>
               ELSE IF AfterContentRequest(r.data, attempt, idx) = "next_url"
               THEN idx' = idx + 1 /\ UNCHANGED <<pc, result, raised, content_data>>
               ELSE IF AfterContentRequest(r.data, attempt, idx) = "sleep"
               THEN pc' = "content_sleep"
                    /\ UNCHANGED <<idx, result, raised, content_data>>
               ELSE ContentReturns(IF r.data # None THEN r.data ELSE EmptyDict)
                    /\ UNCHANGED idx
    /\ UNCHANGED <<calls, volume, batch_vars>>
    /\ UNCHANGED <<entry, nm_id, attempt, card_data, info_card>>

\* get_content_v2: _sleep_with_backoff(attempt) and the next round
ContentSleep ==
    /\ pc = "content_sleep"
    /\ log' = Append(log, Sleep("content", attempt))
    /\ attempt' = attempt + 1
    /\ idx' = 1
    /\ pc' = "content_request"
    /\ UNCHANGED <<calls, volume, batch_vars>>
    /\ UNCHANGED <<entry, nm_id, card_data, info_card, content_data, result,
                   raised, warning>>

Next ==
    \/ fetch_product_raw
    \/ get_card_api
    \/ _request_with_retries
    \/ CardSleep
    \/ get_info_card_json
    \/ InfoProbe
    \/ InfoSleep
    \/ get_content_v2
    \/ ContentRequest
    \/ ContentSleep

Spec == Init /\ [][Next]_vars

-----------------------------------------------------------------------------
(* Observers of a run *)

\* the requests and sleeps of one getter, in order
LogOf(src) == SelectSeq(log, LAMBDA ev : ev.src = src)
ReqsOf(src) == SelectSeq(log, LAMBDA ev : ev.src = src /\ ev.e = "req")
SleepsOf(src) == SelectSeq(log, LAMBDA ev : ev.src = src /\ ev.e = "sleep")

\* extract_nm gives the input an identifier
ValidInput == extract_nm(nm_id).exc = "none" /\ extract_nm(nm_id).v # None

\* position of a getter in the cascade
Rank(src) == CASE src = "card" -> 1 [] src = "info" -> 2 [] src = "content" -> 3

\* the primary fetch of the running call is over
CardFinished ==
    /\ entry \in {"fetch_product_raw", "get_card_api"}
    /\ pc \notin {"fetch_product_raw", "get_card_api", "_request_with_retries", "card_sleep"}

Getters == {"get_card_api", "get_info_card_json", "get_content_v2"}

-----------------------------------------------------------------------------
(* Properties *)

\* C1: in fetch_product_raw, whenever the Shard JSON payload yields a
\* non-blank description, get_content_v2 is never called (no call, no request,
\* no sleep of it) and the record's content_v2 source is the empty object.
C1_DescriptionShortCircuit ==
    (/\ entry = "fetch_product_raw"
     /\ info_card # None
     /\ IsNonBlankStr(_extract_description_from_basket(info_card)))
    => /\ LogOf("content") = <<>>
       /\ pc \notin {"get_content_v2", "content_request", "content_sleep"}
       /\ pc = "done" => result.sources.content_v2 = EmptyDict

C1_Witness ==
    /\ entry = "fetch_product_raw"
    /\ pc = "done"
    /\ ReqsOf("info") # <<>>
    /\ IsNonBlankStr(_extract_description_from_basket(info_card))
    /\ result.description = _extract_description_from_basket(info_card)
    /\ result.sources.content_v2 = EmptyDict

\* C2: within one pipeline run for a valid identifier the requests are strictly
\* sequential in the order primary, Shard JSON, secondary: no Shard JSON
\* request before the primary fetch has returned, no secondary request before
\* the Shard JSON fetch has returned, and the Shard JSON step is attempted
\* whatever the outcome of the primary fetch.
C2_SequentialCascade ==
    (entry = "fetch_product_raw" /\ ValidInput)
    => /\ \A i, j \in DOMAIN log : i < j => Rank(log[i].src) <= Rank(log[j].src)
       /\ LogOf("info") # <<>> => card_data # None
       /\ LogOf("content") # <<>> => info_card # None
       /\ (card_data # None /\ pc \in {"done", "raised"}) => ReqsOf("info") # <<>>

\* C3: _request_with_retries issues at most 4 requests, numbered 1, 2, ...,
\* none after a request that returned a payload; a call that has returned
\* either returns the payload of its last request or, after 4 failed requests,
\* the empty object, and no exception leaves it.
C3_RetryBudget ==
    /\ Len(ReqsOf("card")) <= 4
    /\ \A i \in DOMAIN ReqsOf("card") :
          /\ ReqsOf("card")[i].n = i
          /\ i < Len(ReqsOf("card")) => ~ReqsOf("card")[i].ok
    /\ (ValidInput /\ CardFinished)
       => /\ ReqsOf("card") # <<>>
          /\ \/ ReqsOf("card")[Len(ReqsOf("card"))].ok
             \/ Len(ReqsOf("card")) = 4
    /\ (ValidInput /\ entry = "get_card_api") => pc # "raised"
    /\ (ValidInput /\ entry = "get_card_api" /\ pc = "done")
       => result = IF ReqsOf("card")[Len(ReqsOf("card"))].ok
                   THEN ReqsOf("card")[Len(ReqsOf("card"))].data
                   ELSE EmptyDict

C3_Witness ==
    /\ entry = "get_card_api"
    /\ pc = "done"
    /\ Len(ReqsOf("card")) = 3
    /\ ReqsOf("card")[3].ok
    /\ result = ReqsOf("card")[3].data
    /\ result # EmptyDict

\* C4: in _request_with_retries attempts and sleeps alternate: the i-th sleep
\* follows the failed i-th attempt and is given the attempt number i, no
\* sleep follows a successful attempt or the 4th attempt, so a fetch that has
\* returned after k attempts has slept exactly k - 1 times.
C4_SleepsBetweenAttempts ==
    /\ \A i \in DOMAIN LogOf("card") :
          IF i % 2 = 1
          THEN /\ LogOf("card")[i].e = "req"
               /\ LogOf("card")[i].n = (i + 1) \div 2
          ELSE /\ LogOf("card")[i].e = "sleep"
               /\ LogOf("card")[i].n = i \div 2
               /\ LogOf("card")[i].n < 4
               /\ ~LogOf("card")[i - 1].ok
    /\ (ValidInput /\ CardFinished)
       => Len(SleepsOf("card")) = Len(ReqsOf("card")) - 1

C4_Witness ==
    /\ entry = "get_card_api"
    /\ pc = "done"
    /\ Len(ReqsOf("card")) = 4
    /\ Len(SleepsOf("card")) = 3
    /\ ReqsOf("card")[4].ok

\* the response of an attempt that met a transport error, an HTTP status of
\* 400 or above, or a body that is not JSON
FailedResponse(resp) ==
    resp.kind = "transport" \/ resp.status >= 400 \/ resp.body = NotJson

\* the retry loop goes on after the failed request `last`
LoopContinues(last) ==
    CASE last.src = "card" -> IF last.n < 4 THEN pc = "card_sleep" ELSE pc # "card_sleep"
      [] last.src = "info" -> IF last.n < 4 THEN pc = "info_sleep" ELSE pc # "info_sleep"
      [] last.src = "content" ->
            IF last.target = "v2" THEN pc = "content_request" /\ idx = 2
            ELSE IF last.n < 4 THEN pc = "content_sleep"
            ELSE pc # "content_sleep"

\* C5: a single request attempt that meets a transport error, an HTTP status
\* of 400 or above, or a JSON decode failure yields None and never lets the
\* exception out; the caller counts it as one failed attempt and goes on with
\* its retry loop.
C5_AttemptFailsSoft ==
    /\ \A src \in {"card", "info", "content"} : \A resp \in Responses(src) :
          FailedResponse(resp)
          => _single_request(resp).exc = "none" /\ _single_request(resp).data = None
    /\ raised \notin {"ConnectionError", "HTTPError", "JSONDecodeError"}
    /\ (warning # "none" /\ log # <<>> /\ log[Len(log)].e = "req")
       => /\ ~log[Len(log)].ok
          /\ pc # "raised"
          /\ LoopContinues(log[Len(log)])

C5_Witness ==
    /\ warning = "JSONDecodeError"
    /\ pc = "card_sleep"
    /\ Len(ReqsOf("card")) = 2
    /\ raised = "none"

\* the candidate list of the running call, straight from the shard locator
Candidates == _guess_basket_hosts(extract_nm(nm_id).v.n \div 100000)

\* C6: get_info_card_json probes the hosts of the candidate list in list
\* order (the probed hosts are a prefix of the list), each at most once,
\* makes no probe after one that returned data and returns that payload,
\* makes at most 4 probes, and returns the empty object when none gave data.
C6_ProbeOrder ==
    ValidInput
    => /\ Len(ReqsOf("info")) <= 4
       /\ Len(ReqsOf("info")) <= Len(Candidates)
       /\ \A i \in DOMAIN ReqsOf("info") :
             /\ ReqsOf("info")[i].target = Candidates[i]
             /\ i < Len(ReqsOf("info")) => ~ReqsOf("info")[i].ok
             /\ \A j \in DOMAIN ReqsOf("info") :
                   j # i => ReqsOf("info")[j].target # ReqsOf("info")[i].target
       /\ (entry = "get_info_card_json" /\ pc = "done")
          => /\ ReqsOf("info") # <<>>
             /\ IF ReqsOf("info")[Len(ReqsOf("info"))].ok
                THEN result = ReqsOf("info")[Len(ReqsOf("info"))].data
                ELSE /\ result = EmptyDict
                     /\ Len(ReqsOf("info")) \in {4, Len(Candidates)}
       /\ entry = "get_info_card_json" => pc # "raised"

C6_Witness ==
    /\ entry = "get_info_card_json"
    /\ pc = "done"
    /\ ValidInput
    /\ Len(Candidates) = 6
    /\ Len(ReqsOf("info")) = 4
    /\ ~ReqsOf("info")[4].ok
    /\ result = EmptyDict

\* C7: get_content_v2 runs at most 4 rounds; each round asks the v2 URL and
\* then the v1 URL with the query nm = identifier; nothing is asked after a
\* request that returned a payload, which is what the call returns; the only
\* sleeps are one after each fully failed round but the 4th, with the round
\* number; so at most 8 requests and 3 sleeps, and the empty object when all
\* fail.
C7_ContentRounds ==
    ValidInput
    => /\ Len(ReqsOf("content")) <= 8
       /\ Len(SleepsOf("content")) <= 3
       /\ \A j \in DOMAIN ReqsOf("content") :
             /\ ReqsOf("content")[j].n = (j + 1) \div 2
             /\ ReqsOf("content")[j].n <= 4
             /\ ReqsOf("content")[j].target = IF j % 2 = 1 THEN "v2" ELSE "v1"
             /\ ReqsOf("content")[j].nm = extract_nm(nm_id).v.n
             /\ j < Len(ReqsOf("content")) => ~ReqsOf("content")[j].ok
       /\ \A i \in DOMAIN LogOf("content") :
             IF i % 3 = 0
             THEN /\ LogOf("content")[i].e = "sleep"
                  /\ LogOf("content")[i].n = i \div 3
                  /\ ~LogOf("content")[i - 1].ok
                  /\ ~LogOf("content")[i - 2].ok
             ELSE LogOf("content")[i].e = "req"
       /\ (entry = "get_content_v2" /\ pc = "done")
          => /\ ReqsOf("content") # <<>>
             /\ IF ReqsOf("content")[Len(ReqsOf("content"))].ok
                THEN result = ReqsOf("content")[Len(ReqsOf("content"))].data
                ELSE /\ result = EmptyDict
                     /\ Len(ReqsOf("content")) = 8
                     /\ Len(SleepsOf("content")) = 3
       /\ entry = "get_content_v2" => pc # "raised"

C7_Witness ==
    /\ entry = "get_content_v2"
    /\ pc = "done"
    /\ Len(ReqsOf("content")) = 8
    /\ Len(SleepsOf("content")) = 3
    /\ ~ReqsOf("content")[8].ok
    /\ result = EmptyDict

\* C8: for an input from which no identifier can be extracted, get_card_api,
\* get_info_card_json and get_content_v2 each return the empty object,
\* without any HTTP request and without raising.
C8_NoIdentifierNoRequest ==
    (entry \in Getters /\ ~ValidInput)
    => /\ log = <<>>
       /\ pc # "raised"
       /\ raised = "none"
       /\ pc = "done" => result = EmptyDict

\* the id the primary payload of the running call supplies, None if it has
\* no product or no parseable id
PrimaryId == IntField(_extract_primary_product(card_data), "id")

\* C9 as stated: every record fetch_product_raw returns, for any input, has a
\* non-null id, the input identifier when the primary API supplies no
\* parseable id.
C9_IdNeverNull ==
    (entry = "fetch_product_raw" /\ pc = "done")
    => /\ result.id # None
       /\ PrimaryId = None => result.id = extract_nm(nm_id).v

\* C9, amended: the id of a returned record is the primary API's id when that
\* is parseable and otherwise what extract_nm gives for the input; it is
\* non-null for every input extract_nm gives an identifier, and null when
\* neither the input nor the primary API supplies one.
C9_IdFallsBackToInput ==
    (entry = "fetch_product_raw" /\ pc = "done")
    => /\ result.id = IF PrimaryId # None THEN PrimaryId ELSE extract_nm(nm_id).v
       /\ ValidInput => result.id # None
       /\ (~ValidInput /\ PrimaryId = None) => result.id = None

C9_Witness ==
    /\ entry = "fetch_product_raw"
    /\ pc = "done"
    /\ ValidInput
    /\ _extract_primary_product(card_data) # None
    /\ PrimaryId = None
    /\ result.id = JInt(32000000)
    /\ nm_id = JInt(32000000)

\* no source of the finished run gave anything: no product in the primary
\* payload, no description and no media in the Shard JSON payload, no
\* description in the secondary payload
AllSourcesEmpty ==
    /\ card_data # None /\ info_card # None /\ content_data # None
    /\ ~Truthy(_extract_primary_product(card_data))
    /\ _extract_description_from_basket(info_card) = None
    /\ Get(info_card, "media") = None
    /\ _extract_description_from_content(content_data) = None

\* C10: when all three sources yield nothing for a valid identifier,
\* fetch_product_raw raises nothing and returns a record whose id is the
\* normalised input identifier, whose name, brand, supplier, description and
\* numeric fields are absent, whose colors, sizes and image_urls are empty
\* and whose text_index is the empty string.
C10_EmptyRecord ==
    (/\ entry = "fetch_product_raw"
     /\ ValidInput
     /\ pc \in {"done", "raised"}
     /\ AllSourcesEmpty)
    => /\ pc = "done"
       /\ result.id = extract_nm(nm_id).v
       /\ result.id # None
       /\ \A f \in {"name", "brand", "supplier", "description", "price",
                    "sale_price", "rating", "feedbacks", "category_id",
                    "category_parent_id", "root", "kind_id"} : result[f] = None
       /\ result.colors = <<>>
       /\ result.sizes = <<>>
       /\ result.image_urls = <<>>
       /\ result.text_index = <<>>

C10_Witness ==
    /\ entry = "fetch_product_raw"
    /\ pc = "done"
    /\ ValidInput
    /\ AllSourcesEmpty
    /\ \A i \in DOMAIN log : ~log[i].ok
    /\ Len(ReqsOf("card")) = 4
    /\ Len(ReqsOf("content")) = 8
    /\ result.id = JInt(480000000)
    /\ result.text_index = <<>>

\* what the one call of get_content_v2 returned: the body of its last request
\* when that gave one, the empty object otherwise
ContentPayload ==
    IF ReqsOf("content") # <<>> /\ ReqsOf("content")[Len(ReqsOf("content"))].ok
    THEN ReqsOf("content")[Len(ReqsOf("content"))].data
    ELSE EmptyDict

\* C11: when the Shard JSON step yields no usable description (empty
\* payload, description missing or blank), get_content_v2 is called exactly
\* once, what it returns is stored (as a mapping) as the record's content_v2
\* source, and the record's description is the one extracted from that
\* payload, absent if it has none.
C11_ContentFallback ==
    (/\ entry = "fetch_product_raw"
     /\ info_card # None
     /\ ~IsNonBlankStr(_extract_description_from_basket(info_card)))
    => /\ calls.content = IF pc = "get_content_v2" THEN 0 ELSE 1
       /\ pc = "done"
          => /\ result.sources.content_v2 =
                   IF IsMapping(ContentPayload) THEN ContentPayload ELSE EmptyDict
             /\ result.description =
                   _extract_description_from_content(result.sources.content_v2)
             /\ \/ result.description = None
                \/ IsNonBlankStr(result.description)

C11_Witness ==
    /\ entry = "fetch_product_raw"
    /\ pc = "done"
    /\ Get(info_card, "description") = JStr(<<" ", " ">>)
    /\ calls.content = 1
    /\ ContentPayload # EmptyDict
    /\ result.sources.content_v2 = ContentPayload
    /\ result.description = JStr(<<"N", "e", "s", "t">>)

-----------------------------------------------------------------------------
(* Batch runs: collect_product_records *)

\* largest batch and largest concurrency limit explored
MaxBatch == 3
MaxConcurrency == 2

\* ProductRaw.to_dict(): the fields as a plain mapping
to_dict(product) == [f \in DOMAIN product \ {"t"} |-> product[f]]

\* product_raw.py: the six-field ProductRaw of the synchronous pipeline
SyncProductRaw(product) ==
    IF IsRaise(product) THEN product
    ELSE [f \in {"t", "id", "name", "brand", "supplier", "description", "sources"}
            |-> product[f]]

\* fetch_product_raw(nm) when the getters return these three payloads: the
\* ProductRaw, or the exception raised
PipelineResult(nm, card, info, content) ==
    IF extract_nm(nm).exc # "none" THEN Raise(extract_nm(nm).exc)
    ELSE IF NeedsContent(_extract_description_from_basket(info))
    THEN ProductRaw(extract_nm(nm).v, card, info, content,
                    _extract_description_from_content(content))
    ELSE ProductRaw(extract_nm(nm).v, card, info, EmptyDict,
                    _extract_description_from_basket(info))

BatchInputs == {JInt(32000000), JStr(<<"x", "/", "9", "9", "9">>), JStr(<<"²">>)}

\* what the primary API gives the pipelines of a batch
BatchCards == {EmptyDict, Dict1("data", Dict1("products", JList(<<ProductOverflow>>)))}

\* fetch_product_raw(nm) of a batch member whose primary API gives `card`
\* while the Shard JSON and the Secondary API give nothing
BatchPipelineResult ==
    [nm \in BatchInputs |->
        [card \in BatchCards |-> PipelineResult(nm, card, EmptyDict, EmptyDict)]]

Batches == UNION {[1..n -> BatchInputs] : n \in 0..MaxBatch}

BatchEntries == {"collect_product_records", "collect_product_records_sync"}

\* the batch writers of wb_batch_async.py and wb_batch.py
WriterEntries == {"write_products_to_jsonl", "write_products_to_jsonl_sync"}

InitBatch ==
    /\ entry \in BatchEntries \cup WriterEntries
    /\ nm_ids \in Batches
    /\ concurrency \in 0..MaxConcurrency
    /\ pc = entry
    /\ sem = 0
    /\ tasks = <<>>
    /\ finished = <<>>
    /\ success_count = 0
    /\ error_count = 0
    /\ stream = <<>>
    /\ NoOutputDirectory
    /\ result = <<>>
    /\ raised = "none"
    /\ nm_id = None
    /\ attempt = 0
    /\ idx = 0
    /\ log = <<>>
    /\ card_data = None
    /\ info_card = None
    /\ content_data = None
    /\ warning = "none"
    /\ calls = NoCalls
    /\ volume = 0

\* the variables a batch run leaves alone
pipeline_vars ==
    <<entry, nm_id, attempt, idx, log, card_data, info_card, content_data,
      warning, calls, volume, loader_vars>>

\* a gather that hands the results back in the order the tasks ended
GatherInCompletionOrder(ts, order) == [k \in 1..Len(order) |-> ts[order[k]].out]

\* asyncio.gather(*tasks): the results in the order of the tasks
GatherResults(ts, order) == [i \in 1..Len(ts) |-> ts[i].out]

\* collect_product_records: sem = asyncio.Semaphore(concurrency), one task per
\* nm_id, then the await of gather
collect_product_records ==
    /\ pc = "collect_product_records"
    /\ sem' = concurrency
    /\ tasks' = [i \in 1..Len(nm_ids) |-> [st |-> "created", out |-> None]]
    /\ pc' = "gather"
    /\ UNCHANGED <<nm_ids, concurrency, finished, result, raised, pipeline_vars,
                   writer_vars>>

\* a semaphore that admits whatever its value
SemNeverLocked(value) == FALSE

\* a semaphore that is locked only below 0
SemLockedBelowZero(value) == value < 0

\* `async with sem`: the semaphore is locked while it has no free permit
SemLocked(value) == value = 0

\* _worker: `async with sem` admits the task; tasks start, and waiters are
\* woken, in the order of their creation
WorkerAcquire ==
    /\ pc \in {"gather", "raised"}
    /\ entry = "collect_product_records"
    /\ ~SemLocked(sem)
    /\ \E i \in DOMAIN tasks :
          /\ tasks[i].st = "created"
          /\ \A j \in 1..(i - 1) : tasks[j].st # "created"
          /\ tasks' = [tasks EXCEPT ![i].st = "running"]
    /\ sem' = sem - 1
    /\ UNCHANGED <<nm_ids, concurrency, finished, pc, result, raised, pipeline_vars,
                   writer_vars>>

\* the task's state once its pipeline gave `product`
TaskEnd(product) ==
    IF IsRaise(product) THEN [st |-> "raised", out |-> product]
    ELSE [st |-> "done", out |-> to_dict(product)]

\* _worker: fetch_product_raw ends, the permit goes back; an exception reaches
\* the caller of gather if it is the first one
WorkerFinish ==
    /\ pc \in {"gather", "raised"}
    /\ entry = "collect_product_records"
    /\ \E i \in DOMAIN tasks : \E card \in BatchCards :
          /\ tasks[i].st = "running"
          /\ tasks' = [tasks EXCEPT
                          ![i] = TaskEnd(BatchPipelineResult[nm_ids[i]][card])]
          /\ finished' = Append(finished, i)
          /\ IF tasks'[i].st = "raised" /\ pc = "gather"
             THEN pc' = "raised" /\ raised' = tasks'[i].out.exc
             ELSE UNCHANGED <<pc, raised>>
    /\ sem' = sem + 1
    /\ UNCHANGED <<nm_ids, concurrency, result, pipeline_vars,
                   writer_vars>>

\* collect_product_records: gather returns once every task has its record
GatherReturns ==
    /\ pc = "gather"
    /\ \A i \in DOMAIN tasks : tasks[i].st = "done"
    /\ pc' = "done"
    /\ result' = GatherResults(tasks, finished)
    /\ UNCHANGED <<batch_vars, raised, pipeline_vars>>

\* product_raw.py collect_product_records: one pass of the loop, or the return
SyncCollect ==
    /\ pc = "collect_product_records_sync"
    /\ IF Len(tasks) = Len(nm_ids)
       THEN /\ pc' = "done"
            /\ result' = GatherResults(tasks, finished)
            /\ UNCHANGED <<tasks, finished, raised>>
       ELSE \E card \in BatchCards :
              /\ tasks' = Append(tasks,
                    TaskEnd(SyncProductRaw(
                        BatchPipelineResult[nm_ids[Len(tasks) + 1]][card])))
              /\ finished' = Append(finished, Len(tasks) + 1)
              /\ IF tasks'[Len(tasks')].st = "raised"
                 THEN pc' = "raised" /\ raised' = tasks'[Len(tasks')].out.exc
                 ELSE UNCHANGED <<pc, raised>>
              /\ UNCHANGED result
    /\ UNCHANGED <<nm_ids, concurrency, sem, pipeline_vars,
                   writer_vars>>

\* wb_batch_async.py write_products_to_jsonl, up to the loop: semaphore =
\* asyncio.Semaphore(max_concurrent), the counters at 0, output_path opened
\* with "w", one fetch_one per nm_id handed to as_completed
write_products_to_jsonl ==
    /\ pc = "write_products_to_jsonl"
    /\ sem' = concurrency
    /\ success_count' = 0
    /\ error_count' = 0
    /\ stream' = <<>>
    /\ tasks' = [i \in 1..Len(nm_ids) |-> [st |-> "created", out |-> None]]
    /\ pc' = "as_completed"
    /\ UNCHANGED <<nm_ids, concurrency, finished, result, raised, pipeline_vars>>

\* fetch_one: `async with semaphore` admits the task
FetchOneAcquire ==
    /\ pc = "as_completed"
    /\ ~SemLocked(sem)
    /\ \E i \in DOMAIN tasks :
          /\ tasks[i].st = "created"
          /\ \A j \in 1..(i - 1) : tasks[j].st # "created"
          /\ tasks' = [tasks EXCEPT ![i].st = "running"]
    /\ sem' = sem - 1
    /\ UNCHANGED <<nm_ids, concurrency, finished, pc, result, raised,
                   pipeline_vars, writer_vars>>

\* fetch_one: product.to_dict(), or None after `except Exception`
FetchOneResult(product) ==
    IF IsRaise(product) THEN [st |-> "done", out |-> None]
    ELSE [st |-> "done", out |-> to_dict(product)]

\* fetch_one: fetch_product_raw ends in the executor, the permit goes back
FetchOneFinish ==
    /\ pc = "as_completed"
    /\ \E i \in DOMAIN tasks : \E card \in BatchCards :
          /\ tasks[i].st = "running"
          /\ tasks' = [tasks EXCEPT ![i] = FetchOneResult(BatchPipelineResult[nm_ids[i]][card])]
          /\ finished' = Append(finished, i)
    /\ sem' = sem + 1
    /\ UNCHANGED <<nm_ids, concurrency, pc, result, raised, pipeline_vars,
                   writer_vars>>

\* a writer that counts a result without looking at it
CountedAlways(value) == TRUE

\* `if result:` of the writers' loop
Counted(value) == value # None

\* the loop body of a writer for one result: a line and success_count + 1,
\* or error_count + 1
WriteResult(value) ==
    IF Counted(value)
    THEN /\ stream' = Append(stream, value)
         /\ success_count' = success_count + 1
         /\ UNCHANGED error_count
    ELSE /\ error_count' = error_count + 1
         /\ UNCHANGED <<stream, success_count>>

\* write_products_to_jsonl: `for coro in asyncio.as_completed(tasks)` takes
\* the results in the order the tasks ended; after the last one the counters
\* are returned
AsCompleted ==
    /\ pc = "as_completed"
    /\ LET taken == success_count + error_count
       IN  IF taken = Len(nm_ids)
           THEN /\ pc' = "done"
                /\ result' = <<success_count, error_count>>
                /\ UNCHANGED writer_vars
           ELSE /\ taken < Len(finished)
                /\ WriteResult(tasks[finished[taken + 1]].out)
                /\ UNCHANGED <<pc, result>>
    /\ UNCHANGED <<nm_ids, concurrency, sem, tasks, finished, raised, pipeline_vars>>

\* wb_batch.py write_products_to_jsonl: the counters at 0 and output_path
\* opened with "w"
write_products_to_jsonl_sync ==
    /\ pc = "write_products_to_jsonl_sync"
    /\ success_count' = 0
    /\ error_count' = 0
    /\ stream' = <<>>
    /\ pc' = "for_nm_id"
    /\ UNCHANGED <<nm_ids, concurrency, sem, tasks, finished, result, raised,
                   pipeline_vars>>

\* wb_batch.py write_products_to_jsonl: one pass of `for nm_id in nm_ids`
\* (an exception of fetch_product_raw is caught and counted), or the return
SyncWrite ==
    /\ pc = "for_nm_id"
    /\ IF Len(tasks) = Len(nm_ids)
       THEN /\ pc' = "done"
            /\ result' = <<success_count, error_count>>
            /\ UNCHANGED <<tasks, finished, writer_vars>>
       ELSE \E card \in BatchCards :
              /\ tasks' = Append(tasks,
                    FetchOneResult(BatchPipelineResult[nm_ids[Len(tasks) + 1]][card]))
              /\ finished' = Append(finished, Len(tasks) + 1)
              /\ WriteResult(tasks'[Len(tasks')].out)
              /\ UNCHANGED <<pc, result>>
    /\ UNCHANGED <<nm_ids, concurrency, sem, raised, pipeline_vars>>

NextBatch ==
    \/ collect_product_records
    \/ WorkerAcquire
    \/ WorkerFinish
    \/ GatherReturns
    \/ SyncCollect
    \/ write_products_to_jsonl
    \/ FetchOneAcquire
    \/ FetchOneFinish
    \/ AsCompleted
    \/ write_products_to_jsonl_sync
    \/ SyncWrite

SpecBatch == InitBatch /\ [][NextBatch]_vars

\* the pipelines admitted by the semaphore and not yet finished
InFlight == {i \in DOMAIN tasks : tasks[i].st = "running"}

\* C12: while collect_product_records runs a batch, at every moment and under
\* every interleaving the number of pipelines in flight (admitted by the
\* semaphore, fetch_product_raw not yet finished) is at most the concurrency
\* limit, for any batch size.
C12_InFlightBounded ==
    entry = "collect_product_records"
    => /\ Cardinality(InFlight) <= concurrency
       /\ sem >= 0
       /\ pc # "collect_product_records" => sem + Cardinality(InFlight) = concurrency

C12_Witness ==
    /\ entry = "collect_product_records"
    /\ Len(nm_ids) = 3
    /\ concurrency = 2
    /\ Cardinality(InFlight) = 2
    /\ tasks[3].st = "created"

\* the record a batch run holds for input nm: what the pipeline gives for it,
\* as the mapping the run's ProductRaw turns into
RecordsFor(nm) ==
    {IF entry = "collect_product_records"
     THEN to_dict(PipelineResult(nm, card, EmptyDict, EmptyDict))
     ELSE to_dict(SyncProductRaw(PipelineResult(nm, card, EmptyDict, EmptyDict))) :
        card \in {c \in BatchCards :
                     ~IsRaise(PipelineResult(nm, c, EmptyDict, EmptyDict))}}

\* C13: collect_product_records returns exactly one record per input
\* identifier, repeated ones included: the returned list has the length of
\* the input and its i-th element is the record produced for the i-th input,
\* whatever the order in which the pipelines ended.
C13_OneRecordPerInput ==
    (entry \in BatchEntries /\ pc = "done")
    => /\ Len(result) = Len(nm_ids)
       /\ \A i \in DOMAIN nm_ids :
             /\ result[i] = tasks[i].out
             /\ result[i] \in RecordsFor(nm_ids[i])
             /\ result[i].id = extract_nm(nm_ids[i]).v

C13_Witness ==
    /\ entry = "collect_product_records"
    /\ pc = "done"
    /\ Len(result) = 3
    /\ finished = <<2, 3, 1>>
    /\ nm_ids[1] = nm_ids[3]
    /\ nm_ids[1] # nm_ids[2]
    /\ result[1].id = JInt(32000000)
    /\ result[2].id = JInt(999)

-----------------------------------------------------------------------------
(* The identifier normaliser on its own *)

\* longest string given to extract_nm
MaxLen == 3

ExtractAlphabet == {"0", "1", "7", "a", " ", "²"}

ExtractInputs ==
    {JStr(s) : s \in UNION {[1..n -> ExtractAlphabet] : n \in 0..MaxLen}}
    \cup {JInt(n) : n \in -2..2} \cup {JInt(258368289), None, JFloat(15)}

InitExtract ==
    /\ entry = "extract_nm"
    /\ nm_id \in ExtractInputs
    /\ pc = "extract_nm"
    /\ result = None
    /\ raised = "none"
    /\ attempt = 0
    /\ idx = 0
    /\ log = <<>>
    /\ card_data = None
    /\ info_card = None
    /\ content_data = None
    /\ warning = "none"
    /\ calls = NoCalls
    /\ volume = 0
    /\ nm_ids = <<>>
    /\ concurrency = 0
    /\ sem = 0
    /\ tasks = <<>>
    /\ finished = <<>>
    /\ success_count = 0
    /\ error_count = 0
    /\ stream = <<>>
    /\ NoOutputDirectory

\* a call extract_nm(nm_id)
CallExtractNm ==
    /\ pc = "extract_nm"
    /\ IF extract_nm(nm_id).exc # "none"
       THEN Raises(extract_nm(nm_id).exc)
       ELSE Returns(extract_nm(nm_id).v)
    /\ UNCHANGED <<entry, nm_id, attempt, idx, log, card_data, info_card,
                   content_data, warning, calls, volume, batch_vars>>

NextExtract == CallExtractNm

SpecExtract == InitExtract /\ [][NextExtract]_vars

\* the value of the first run of decimal digits of s, None if s has no digit
FirstRunValue(s) ==
    LET digits == {p \in 1..Len(s) : IsDecimal(s[p])}
    IN  IF digits = {} THEN None
        ELSE LET p == CHOOSE x \in digits : \A y \in digits : x <= y
                 ends == {k \in p..Len(s) : \A j \in p..k : IsDecimal(s[j])}
                 q == CHOOSE x \in ends : \A y \in ends : x >= y
             IN  JInt(DecimalValue(SubSeq(s, p, q), 0))

\* what the identifier rules give for an input
ExpectedNm(x) ==
    IF IsInt(x) THEN IF x.n > 0 THEN x ELSE None
    ELSE IF IsStr(x)
    THEN IF AllDecimal(Strip(x.s))
         THEN IF DecimalValue(Strip(x.s), 0) > 0
              THEN JInt(DecimalValue(Strip(x.s), 0)) ELSE None
         ELSE FirstRunValue(Strip(x.s))
    ELSE None

\* C14: extract_nm returns n for an integer n > 0 and absent for n <= 0; for
\* a string that after trimming is all digits its value if strictly positive
\* and absent otherwise; for any other string the value of the first run of
\* digits, absent if there is no digit; absent for any other type; and it
\* never raises.
C14_ExtractNmRules ==
    (entry = "extract_nm" /\ pc # "extract_nm")
    => /\ pc = "done"
       /\ raised = "none"
       /\ result = ExpectedNm(nm_id)

\* C15: for every integer or string input extract_nm returns either absent
\* or a strictly positive integer, never 0 or a negative number.
C15_PositiveOrAbsent ==
    (entry = "extract_nm" /\ pc = "done")
    => \/ result = None
       \/ IsInt(result) /\ result.n > 0

-----------------------------------------------------------------------------
(* The shard locator on its own *)

\* volumes run from -NegVols to MaxVol
NegVols == 3
MaxVol == 7000

Volumes == -NegVols..MaxVol

InitHosts ==
    /\ entry \in {"_guess_basket_hosts", "wildberries_client._guess_basket_hosts"}
    /\ volume \in Volumes
    /\ pc = entry
    /\ nm_id = None
    /\ result = None
    /\ raised = "none"
    /\ attempt = 0
    /\ idx = 0
    /\ log = <<>>
    /\ card_data = None
    /\ info_card = None
    /\ content_data = None
    /\ warning = "none"
    /\ calls = NoCalls
    /\ nm_ids = <<>>
    /\ concurrency = 0
    /\ sem = 0
    /\ tasks = <<>>
    /\ finished = <<>>
    /\ success_count = 0
    /\ error_count = 0
    /\ stream = <<>>
    /\ NoOutputDirectory

\* a call _guess_basket_hosts(volume)
CallGuessBasketHosts ==
    /\ pc = "_guess_basket_hosts"
    /\ Returns(_guess_basket_hosts(volume))
    /\ UNCHANGED <<entry, nm_id, attempt, idx, log, card_data, info_card,
                   content_data, warning, calls, volume, batch_vars>>

\* a call _guess_basket_hosts(volume) of src/wildberries_client.py
CallArithmeticGuessBasketHosts ==
    /\ pc = "wildberries_client._guess_basket_hosts"
    /\ Returns(wildberries_client_guess_basket_hosts(volume))
    /\ UNCHANGED <<entry, nm_id, attempt, idx, log, card_data, info_card,
                   content_data, warning, calls, volume, batch_vars>>

NextHosts == CallGuessBasketHosts \/ CallArithmeticGuessBasketHosts

SpecHosts == InitHosts /\ [][NextHosts]_vars

\* the call has returned its list
HostsReturned == entry = "_guess_basket_hosts" /\ pc = "done"

SmallestThreshold == _BASKET_VOL_THRESHOLDS[1]
LargestThreshold == _BASKET_VOL_THRESHOLDS[Len(_BASKET_VOL_THRESHOLDS)]

\* C16: _guess_basket_hosts returns exactly [9, 1, 2] for every negative
\* volume; for every volume from 0 up to the smallest threshold (143) the
\* first candidate is host 1; for every volume above the largest threshold
\* (6437) the first candidate is host 32.
C16_LocatorBoundaries ==
    HostsReturned
    => /\ SmallestThreshold = 143 /\ LargestThreshold = 6437
       /\ volume < 0 => result = <<9, 1, 2>>
       /\ (volume >= 0 /\ volume <= SmallestThreshold) => result[1] = 1
       /\ volume > LargestThreshold => result[1] = 32

C16_Witness ==
    /\ HostsReturned
    /\ volume = -1
    /\ result = <<9, 1, 2>>

\* the number of table entries strictly smaller than v
SmallerThresholds(v) ==
    Cardinality({i \in 1..Len(_BASKET_VOL_THRESHOLDS) : _BASKET_VOL_THRESHOLDS[i] < v})

PrimaryMapping ==
    {<<0, 1>>, <<144, 2>>, <<320, 3>>, <<720, 5>>, <<1116, 8>>, <<5000, 27>>,
     <<6126, 31>>, <<7000, 32>>}

\* C17: for every volume >= 0 the first candidate is 1 plus the number of
\* table entries strictly smaller than the volume (so a volume equal to a
\* threshold maps to the lower host), never above 32; in particular 0->1,
\* 144->2, 320->3, 720->5, 1116->8, 5000->27, 6126->31, 7000->32.
C17_PrimaryFromTable ==
    (HostsReturned /\ volume >= 0)
    => /\ Len(_BASKET_VOL_THRESHOLDS) = 31
       /\ result[1] = 1 + SmallerThresholds(volume)
       /\ result[1] <= 32
       /\ \A m \in PrimaryMapping : volume = m[1] => result[1] = m[2]

C17_Witness ==
    /\ HostsReturned
    /\ volume = 1115
    /\ result[1] = 7
    /\ _guess_basket_hosts(1116)[1] = 8

\* the volumes below v2 it is compared with: its predecessor, volume 0, and
\* every table entry and the volume right after it
VolumesBelow(v2) ==
    {v1 \in {0, v2 - 1}
             \cup {_BASKET_VOL_THRESHOLDS[i] : i \in 1..Len(_BASKET_VOL_THRESHOLDS)}
             \cup {_BASKET_VOL_THRESHOLDS[i] + 1 : i \in 1..Len(_BASKET_VOL_THRESHOLDS)} :
        0 <= v1 /\ v1 < v2}

\* C18: for all volumes v1 < v2, both >= 0, the first candidate returned for
\* v1 is less than or equal to the first candidate returned for v2. Every
\* v2 is compared with v2 - 1, so the pairs chain to any v1 < v2.
C18_PrimaryMonotone ==
    (HostsReturned /\ volume >= 0)
    => \A v1 \in VolumesBelow(volume) : _guess_basket_hosts(v1)[1] <= result[1]

C18_Witness ==
    /\ HostsReturned
    /\ volume = 6438
    /\ result[1] = 32
    /\ _guess_basket_hosts(6437)[1] = 31
    /\ _guess_basket_hosts(0)[1] = 1

\* C19: for every integer volume the returned list has between 1 and 6
\* entries, every entry lies in 1..32, and no host number occurs twice.
C19_ListShape ==
    HostsReturned
    => /\ Len(result) \in 1..6
       /\ \A i \in 1..Len(result) : result[i] \in 1..32
       /\ \A i, j \in 1..Len(result) : result[i] = result[j] => i = j

C19_Witness ==
    /\ HostsReturned
    /\ volume = 4800
    /\ result = <<26, 30, 29, 31, 28, 32>>

\* the quotient a / b rounded up and rounded down, b > 0
Ceil(a, b) == IF a % b = 0 THEN a \div b ELSE (a \div b) + 1
Floor(a, b) == a \div b

\* the list built from a first candidate and a secondary estimate b
ListFrom(first, b) ==
    AppendCandidates(<<first>>, <<b, b - 1, b + 1, b - 2, b + 2>>)

\* C20 as stated: for every volume >= 0 the secondary estimate that
\* _guess_basket_hosts uses to build the candidate list equals
\* max(1, ceil((volume + 159) / 160)).
C20_SecondaryIsCeilOfShifted ==
    (HostsReturned /\ volume >= 0)
    => /\ SecondaryBase(volume) = Max(1, Ceil(volume + 159, 160))
       /\ result = ListFrom(result[1], Max(1, Ceil(volume + 159, 160)))

\* C20 amended: for every volume >= 0 the secondary estimate is
\* max(1, floor((volume + 159) / 160)), which is max(1, ceil(volume / 160)).
C20_SecondaryIsFloorOfShifted ==
    (HostsReturned /\ volume >= 0)
    => /\ SecondaryBase(volume) = Max(1, Floor(volume + 159, 160))
       /\ SecondaryBase(volume) = Max(1, Ceil(volume, 160))
       /\ result = ListFrom(result[1], Max(1, Floor(volume + 159, 160)))

C20_Witness ==
    /\ HostsReturned
    /\ volume = 320
    /\ SecondaryBase(volume) = 2
    /\ Ceil(volume + 159, 160) = 3
    /\ result = <<3, 2, 1, 4>>

\* the first candidate followed by b, b-1, b+1, b-2, b+2
RawCandidates(first, b) == <<first, b, b - 1, b + 1, b - 2, b + 2>>

\* the positions of raw that survive: in 1..32 and not met at an earlier position
KeptPositions(raw) ==
    {i \in 1..Len(raw) : raw[i] \in 1..32 /\ \A j \in 1..(i - 1) : raw[j] # raw[i]}

\* the k-th smallest member of a set of positions
KthOf(positions, k) ==
    CHOOSE i \in positions : Cardinality({j \in positions : j < i}) = k - 1

\* raw restricted to its kept positions, order preserved
FilteredCandidates(raw) ==
    [k \in 1..Cardinality(KeptPositions(raw)) |-> raw[KthOf(KeptPositions(raw), k)]]

\* C21: for every volume >= 0 the candidate list is the primary candidate
\* followed by b, b-1, b+1, b-2, b+2 in that order, b being the secondary
\* estimate the function computes, keeping only values in 1..32 and dropping
\* every value already in the list; for volume 320 it is exactly [3, 2, 1, 4].
C21_CandidateOrder ==
    (HostsReturned /\ volume >= 0)
    => /\ result[1] = Min(1 + SmallerThresholds(volume), 32)
       /\ result = FilteredCandidates(RawCandidates(result[1], SecondaryBase(volume)))
       /\ volume = 320 => result = <<3, 2, 1, 4>>

C21_Witness ==
    /\ HostsReturned
    /\ volume = 5000
    /\ SecondaryBase(volume) = 32
    /\ RawCandidates(result[1], 32) = <<27, 32, 31, 33, 30, 34>>
    /\ result = <<27, 32, 31, 30>>

-----------------------------------------------------------------------------
(* The backoff sleep on its own *)

\* Binary floating point with PrecisionBits significant bits (53 in CPython,
\* scaled down). Times are counted in units of 2^-(PrecisionBits + 1) second,
\* the grid of the jitter values.
PrecisionBits == 6

RECURSIVE Pow2(_)
Pow2(n) == IF n <= 0 THEN 1 ELSE 2 * Pow2(n - 1)

Second == Pow2(PrecisionBits + 1)

BACKOFF_FACTOR == Second \div 2
BACKOFF_JITTER == Second \div 2

\* random.random(): m / 2^PrecisionBits for 0 <= m < 2^PrecisionBits
Randoms == 0..(Pow2(PrecisionBits) - 1)

\* the largest e with 2^e <= x, for x >= 1
RECURSIVE Exponent(_)
Exponent(x) == IF x < 2 THEN 0 ELSE 1 + Exponent(x \div 2)

\* distance between neighbouring floats around x
FloatSpacing(x) ==
    IF x < 1 \/ Exponent(x) < PrecisionBits THEN 1
    ELSE Pow2(Exponent(x) - PrecisionBits + 1)

\* x rounded to a multiple of q, ties to the even multiple
RoundHalfEven(x, q) ==
    LET lo == (x \div q) * q
        r == x - lo
    IN  IF 2 * r < q THEN lo
        ELSE IF 2 * r > q THEN lo + q
        ELSE IF (x \div q) % 2 = 0 THEN lo ELSE lo + q

\* a + b in floating point
FloatAdd(a, b) == RoundHalfEven(a + b, FloatSpacing(a + b))

\* random.uniform(a, b) = a + (b - a) * random.random(), with
\* random.random() = m / 2^PrecisionBits
Uniform(a, b, m) == FloatAdd(a, ((b - a) * m) \div Pow2(PrecisionBits))

\* a delay that grows by BACKOFF_FACTOR per attempt
BackoffDelayLinear(k) == BACKOFF_FACTOR * k

\* delay = BACKOFF_FACTOR * (2 ** (attempt - 1))
BackoffDelay(k) == BACKOFF_FACTOR * Pow2(k - 1)

UniformCall(value) == [e |-> "random.uniform", v |-> value]
TimeSleep(value) == [e |-> "time.sleep", v |-> value]

InitSleep ==
    /\ entry = "_sleep_with_backoff"
    /\ attempt \in 1..(MAX_RETRIES - 1)
    /\ pc = "_sleep_with_backoff"
    /\ nm_id = None
    /\ result = None
    /\ raised = "none"
    /\ idx = 0
    /\ log = <<>>
    /\ card_data = None
    /\ info_card = None
    /\ content_data = None
    /\ warning = "none"
    /\ calls = NoCalls
    /\ volume = 0
    /\ nm_ids = <<>>
    /\ concurrency = 0
    /\ sem = 0
    /\ tasks = <<>>
    /\ finished = <<>>
    /\ success_count = 0
    /\ error_count = 0
    /\ stream = <<>>
    /\ NoOutputDirectory

\* a call _sleep_with_backoff(attempt)
_sleep_with_backoff ==
    /\ pc = "_sleep_with_backoff"
    /\ \E m \in Randoms :
          log' = log \o <<UniformCall(Uniform(0, BACKOFF_JITTER, m)),
                          TimeSleep(FloatAdd(BackoffDelay(attempt),
                                             Uniform(0, BACKOFF_JITTER, m)))>>
    /\ pc' = "done"
    /\ UNCHANGED <<entry, nm_id, attempt, idx, card_data, info_card, content_data,
                   result, raised, warning, calls, volume, batch_vars>>

NextSleep == _sleep_with_backoff

SpecSleep == InitSleep /\ [][NextSleep]_vars

\* the call has returned
SleepReturned == entry = "_sleep_with_backoff" /\ pc = "done"

\* the jitter drawn and the durations slept during the call
JitterDrawn == SelectSeq(log, LAMBDA ev : ev.e = "random.uniform")
Slept == SelectSeq(log, LAMBDA ev : ev.e = "time.sleep")

\* 0.5 * 2^(k-1) seconds for k = 1, 2, 3
NominalDelay(k) ==
    CASE k = 1 -> Second \div 2
      [] k = 2 -> Second
      [] k = 3 -> 2 * Second

Distance(a, b) == IF a < b THEN b - a ELSE a - b

\* C22 as stated: for attempt k = 1, 2, 3 the sleep lasts 0.5 * 2^(k-1)
\* seconds plus a jitter in [0, 0.5), so it lies in [0.5, 1.0), [1.0, 1.5),
\* [2.0, 2.5); with jitter 0 the sleep for attempt 3 is exactly 2.0 seconds
\* and exactly one sleep call is made.
C22_SleepInHalfOpenInterval ==
    SleepReturned
    => /\ Len(Slept) = 1 /\ Len(JitterDrawn) = 1
       /\ JitterDrawn[1].v >= 0 /\ 2 * JitterDrawn[1].v < Second
       /\ Slept[1].v >= NominalDelay(attempt)
       /\ 2 * Slept[1].v < 2 * NominalDelay(attempt) + Second
       /\ (attempt = 3 /\ JitterDrawn[1].v = 0) => Slept[1].v = 2 * Second

\* C22 amended: the jitter lies in [0, 0.5) and exactly one sleep is made,
\* but the sleep is the floating-point sum of delay and jitter, which can
\* round up to the upper end: it lies in [0.5, 1.0], [1.0, 1.5], [2.0, 2.5]
\* and is within 4 time units of the exact sum.
C22_SleepInClosedInterval ==
    SleepReturned
    => /\ Len(Slept) = 1 /\ Len(JitterDrawn) = 1
       /\ JitterDrawn[1].v >= 0 /\ 2 * JitterDrawn[1].v < Second
       /\ Slept[1].v >= NominalDelay(attempt)
       /\ 2 * Slept[1].v <= 2 * NominalDelay(attempt) + Second
       /\ Distance(Slept[1].v, NominalDelay(attempt) + JitterDrawn[1].v) <= 4
       /\ (attempt = 3 /\ JitterDrawn[1].v = 0) => Slept[1].v = 2 * Second

C22_Witness ==
    /\ SleepReturned
    /\ attempt = 1
    /\ 2 * JitterDrawn[1].v = Second - 2
    /\ Slept[1].v = Second

-----------------------------------------------------------------------------
(* The sleeps of the Shard JSON step *)

\* C30: in get_info_card_json a backoff sleep happens only between two
\* consecutive host probes: after the last probe of the step, whether the
\* candidate list was exhausted or the 4-probe budget was reached, no sleep
\* is performed before {} is returned; this holds for candidate lists of
\* every length.
C30_SleepOnlyBetweenProbes ==
    entry \in {"fetch_product_raw", "get_info_card_json"}
    => \A i \in DOMAIN LogOf("info") :
          LogOf("info")[i].e = "sleep"
          => /\ i > 1
             /\ LogOf("info")[i - 1].e = "req"
             /\ IF i < Len(LogOf("info"))
                THEN LogOf("info")[i + 1].e = "req"
                ELSE pc = "info_probe"

-----------------------------------------------------------------------------
(* Normalisation and merge on their own: fetch_product_raw with each getter
   answering at its first request *)

SizesWithPrice ==
    JList(<<JObj(<< <<"price", JObj(<< <<"basic", JStr(<<"1", "2", "0", "0">>)>>,
                                       <<"product", JStr(<<"9", "0", "0">>)>> >>)>> >>)>>)

ProductFull ==
    JObj(<< <<"id", JInt(7)>>, <<"name", JStr(<<" ", "I", "t", "e", "m", " ">>)>>, <<"brand", JStr(<<>>)>>, <<"supplier", JInt(123)>>, <<"priceU", JInt(1500)>>, <<"salePriceU", JInt(1200)>>, <<"pics", JInt(2)>>, <<"sizes", SizesWithPrice>> >>)

ProductDerivedPrice ==
    JObj(<< <<"name", JStr(<<" ", " ">>)>>, <<"sizes", SizesWithPrice>> >>)

ProductZeroPrice ==
    JObj(<< <<"priceU", JInt(0)>>, <<"sizes", SizesWithPrice>> >>)

ProductZeroPriceWithSale ==
    JObj(<< <<"priceU", JInt(0)>>, <<"salePriceU", JInt(5)>>, <<"sizes", SizesWithPrice>> >>)

ProductPriceOnly ==
    JObj(<< <<"priceU", JInt(1500)>>, <<"sizes", SizesWithPrice>> >>)

SizesEmptyPriceFirst ==
    JList(<<JObj(<< <<"name", JStr(<<"S">>)>>, <<"price", EmptyDict>> >>),
            JObj(<< <<"price", JObj(<< <<"basic", JInt(500)>>, <<"total", JInt(450)>> >>)>> >>)>>)

SizesSplitPrices ==
    JList(<<JObj(<< <<"name", JStr(<<"M">>)>> >>),
            JObj(<< <<"price", JObj(<< <<"basic", JInt(700)>> >>)>> >>),
            JObj(<< <<"price", JObj(<< <<"basic", JInt(710)>>, <<"product", JInt(650)>> >>)>> >>)>>)

ProductEmptyPriceFirst ==
    JObj(<< <<"sizes", SizesEmptyPriceFirst>> >>)

ProductSplitPrices ==
    JObj(<< <<"sizes", SizesSplitPrices>> >>)

ProductSaleOnly ==
    JObj(<< <<"salePriceU", JInt(300)>>, <<"sizes", SizesSplitPrices>> >>)

ProductImages ==
    JObj(<< <<"id", JStr(<<"1", "2">>)>>, <<"images", JList(<<JStr(<<"a", ".", "j", "p", "g">>), JStr(<<" ">>)>>)>>, <<"pics", JInt(5)>> >>)

ProductPicsOverflow ==
    JObj(<< <<"pics", JInf>> >>)

ProductSoftFields ==
    JObj(<< <<"id", JStr(<<"b", "a", "d">>)>>, <<"pics", JStr(<<"a", "b", "c">>)>>, <<"priceU", JStr(<<"1", "5", "0", "0">>)>> >>)

InfoPadded ==
    JObj(<< <<"description", JStr(<<" ", "p", "a", "d", "d", "e", "d", " ">>)>> >>)

InfoOtherKey ==
    JObj(<< <<"descriptionText", JStr(<<"t", "x", "t">>)>> >>)

InfoNested ==
    JObj(<< <<"info", JObj(<< <<"description", JStr(<<"d", "e", "s", "c">>)>> >>)>> >>)

InfoBlankWithMedia ==
    JObj(<< <<"description", JStr(<<" ", " ">>)>>, <<"media", JObj(<< <<"photo_count", JInt(3)>> >>)>> >>)

InfoBadCount ==
    JObj(<< <<"media", JObj(<< <<"photo_count", JStr(<<"x">>)>> >>)>> >>)

InfoCountOverflow ==
    JObj(<< <<"media", JObj(<< <<"photo_count", JInf>> >>)>> >>)

ContentTopAndEntry ==
    JObj(<< <<"description", JStr(<<"T", "o", "p">>)>>, <<"data", JObj(<< <<"products", JList(<<JObj(<< <<"text", JStr(<<"E", "n", "t", "r", "y">>)>> >>)>>)>> >>)>> >>)

ContentDataAndList ==
    JObj(<< <<"data", JObj(<< <<"description", JStr(<<"D", "a", "t", "a">>)>>, <<"list", JList(<<JObj(<< <<"descriptionText", JStr(<<" ", "N", "e", "s", "t", "e", "d">>)>> >>)>>)>> >>)>> >>)

ContentFallback ==
    JObj(<< <<"text", JStr(<<"L", "a", "s", "t">>)>>, <<"data", JObj(<< <<"details", JObj(<< <<"text", JStr(<<"F", "a", "l", "l", "b", "a", "c", "k">>)>> >>)>> >>)>> >>)

ContentCards ==
    JObj(<< <<"description", JStr(<<" ">>)>>, <<"data", JObj(<< <<"cards", JList(<<JObj(<< <<"description_html", JStr(<<"C", "a", "r", "d">>)>> >>)>>)>>, <<"products", JList(<<JInt(5)>>)>> >>)>> >>)

CardOf(product) == Dict1("data", Dict1("products", JList(<<product>>)))

MergeProducts ==
    {ProductFull, ProductDerivedPrice, ProductZeroPrice, ProductZeroPriceWithSale, ProductPriceOnly, ProductImages, ProductPicsOverflow, ProductSoftFields, ProductOverflow,
     ProductEmptyPriceFirst, ProductSplitPrices, ProductSaleOnly}

MergeCards == {EmptyDict} \cup {CardOf(product) : product \in MergeProducts}

MergeInfos ==
    {EmptyDict, InfoPadded, InfoOtherKey, InfoNested, InfoBlankWithMedia, InfoBadCount, InfoCountOverflow}

MergeContents ==
    {EmptyDict, ContentTopAndEntry, ContentDataAndList, ContentFallback, ContentCards}

MergeInputs == {JInt(100), JStr(<<"b", "a", "d">>)}

\* what a getter returns for the input: {} without a request when extract_nm
\* finds no identifier
GetterAnswers(nm, payloads) ==
    IF extract_nm(nm).v = None THEN {EmptyDict} ELSE payloads

InitMerge ==
    /\ entry = "fetch_product_raw"
    /\ pc = "merge"
    /\ nm_id \in MergeInputs
    /\ card_data \in GetterAnswers(nm_id, MergeCards)
    /\ info_card \in GetterAnswers(nm_id, MergeInfos)
    /\ content_data \in GetterAnswers(nm_id, MergeContents)
    /\ result = None
    /\ raised = "none"
    /\ attempt = 0
    /\ idx = 0
    /\ log = <<>>
    /\ warning = "none"
    /\ calls = NoCalls
    /\ volume = 0
    /\ nm_ids = <<>>
    /\ concurrency = 0
    /\ sem = 0
    /\ tasks = <<>>
    /\ finished = <<>>
    /\ success_count = 0
    /\ error_count = 0
    /\ stream = <<>>
    /\ NoOutputDirectory

\* fetch_product_raw(nm_id) with the three getter answers of the state
MergeAnswers ==
    /\ pc = "merge"
    /\ ReturnOrRaise(PipelineResult(nm_id, card_data, info_card, content_data))
    /\ UNCHANGED <<entry, nm_id, attempt, idx, log, card_data, info_card,
                   content_data, warning, calls, volume, batch_vars>>

NextMerge == MergeAnswers

SpecMerge == InitMerge /\ [][NextMerge]_vars

\* the merge is over / has returned a record
MergeOver == entry = "fetch_product_raw" /\ log = <<>> /\ pc \in {"done", "raised"}
MergeReturned == MergeOver /\ pc = "done"

\* the primary object of the state, None if there is none
PrimaryObject == _extract_primary_product(card_data)

\* the integer a field value parses to, None if it does not
ParsedInt(value) ==
    IF IsInt(value) THEN value
    ELSE IF IsStr(value) /\ value.s # <<>> /\ AllDecimal(value.s)
    THEN JInt(DecimalValue(value.s, 0))
    ELSE None

\* C23: when the primary object has no priceU but its first sizes entry has
\* price.basic = "1200", the record's price is 1200; and for every primary
\* object that carries a parseable priceU, whatever its integer value and
\* whether or not salePriceU is present, the record's price equals that
\* priceU and never a value derived from the sizes list.
C23_ExplicitPriceWins ==
    (MergeReturned /\ PrimaryObject # None)
    => /\ (Get(PrimaryObject, "priceU") = None /\ Get(PrimaryObject, "sizes") = SizesWithPrice)
          => result.price = JInt(1200)
       /\ ParsedInt(Get(PrimaryObject, "priceU")) # None
          => result.price = ParsedInt(Get(PrimaryObject, "priceU"))

TextFields == {"name", "brand", "supplier", "description"}

\* C24: in every record returned by fetch_product_raw, each of name, brand,
\* supplier and description is either absent or a string with at least one
\* non-whitespace character, never the empty string or a blank string.
C24_TextAbsentOrNonBlank ==
    MergeReturned
    => \A f \in TextFields :
          \/ result[f] = None
          \/ /\ IsStr(result[f])
             /\ \E i \in 1..Len(result[f].s) : ~IsSpace(result[f].s[i])

C24_Witness ==
    /\ MergeReturned
    /\ PrimaryObject = ProductFull
    /\ info_card = InfoBlankWithMedia
    /\ content_data = ContentCards
    /\ result.name = JStr(<<"I", "t", "e", "m">>)
    /\ result.brand = None
    /\ result.supplier = JStr(<<"1", "2", "3">>)
    /\ result.description = JStr(<<"C", "a", "r", "d">>)

\* C25: in every record returned by fetch_product_raw, each present text
\* field (name, brand, supplier, description) is trimmed: it has no leading
\* and no trailing whitespace, whichever source it came from.
C25_TextTrimmed ==
    MergeReturned
    => \A f \in TextFields :
          (result[f] # None /\ result[f].s # <<>>)
          => /\ ~IsSpace(result[f].s[1])
             /\ ~IsSpace(result[f].s[Len(result[f].s)])

-----------------------------------------------------------------------------
(* The description of the Shard JSON payload, in the cascade *)

\* the top-level description field when it is a non-blank string, otherwise
\* the first non-blank string found depth first under one of `keys`
ShardDescription(payload, keys) ==
    IF IsNonBlankStr(Get(payload, "description")) THEN Get(payload, "description")
    ELSE _find_first_string(payload, keys)

\* the Shard JSON step of fetch_product_raw is over
ShardStepOver == entry = "fetch_product_raw" /\ info_card # None /\ log # <<>>

\* C26 as stated: the description taken from the Shard JSON payload is its
\* top-level description field when that is a non-blank string, and otherwise
\* the first non-blank string found depth first under any of the key names
\* description, descriptionText, description_html, text; a payload holding a
\* non-blank string under any of these four keys yields a description and
\* short-circuits the cascade.
C26_ShardDescriptionAnyKey ==
    (ShardStepOver /\ ShardDescription(info_card, DescriptionKeys) # None)
    => /\ calls.content = 0
       /\ pc = "done" => result.description = ShardDescription(info_card, DescriptionKeys)

\* C26 amended: the search is made under the key name description alone; a
\* payload holding a non-blank string only under descriptionText,
\* description_html or text yields no description, and the cascade goes on
\* to the Secondary API.
C26_ShardDescriptionOneKey ==
    ShardStepOver
    => IF ShardDescription(info_card, <<"description">>) # None
       THEN /\ calls.content = 0
            /\ pc = "done"
               => result.description = ShardDescription(info_card, <<"description">>)
       ELSE /\ calls.content = IF pc = "get_content_v2" THEN 0 ELSE 1
            /\ pc = "done"
               => result.description = _extract_description_from_content(result.sources.content_v2)

C26_Witness ==
    /\ ShardStepOver
    /\ pc = "done"
    /\ info_card = Dict1("descriptionText", JStr(<<"t", "x", "t">>))
    /\ calls.content = 1
    /\ result.description = JStr(<<"D", "i", "r">>)

-----------------------------------------------------------------------------
(* The description of the Secondary API payload *)

\* the first entry of seq that is not None, None if there is none
RECURSIVE FirstFound(_)
FirstFound(seq) ==
    IF seq = <<>> THEN None
    ELSE IF Head(seq) # None THEN Head(seq)
    ELSE FirstFound(Tail(seq))

\* what the entries of the list data[key] give
EntriesAt(payload, key) ==
    IF IsMapping(Get(payload, "data"))
    THEN EntriesDescription(Get(Get(payload, "data"), key))
    ELSE None

\* what the data object itself gives
DataObjectAt(payload) ==
    IF IsMapping(Get(payload, "data"))
    THEN _find_first_string(Get(payload, "data"), DescriptionKeys)
    ELSE None

\* the locations in the order of the claim
ListsDataTop(payload) ==
    <<EntriesAt(payload, "products"), EntriesAt(payload, "cards"),
      EntriesAt(payload, "list"), DataObjectAt(payload),
      _find_first_string(payload, DescriptionKeys)>>

\* the top-level description field itself, when it is a non-blank string
DirectField(payload) ==
    IF IsNonBlankStr(Get(payload, "description")) THEN Get(payload, "description")
    ELSE None

\* the record's description was taken from the Secondary API payload
ContentConsulted ==
    /\ MergeReturned
    /\ ShardDescription(info_card, <<"description">>) = None
    /\ result.sources.content_v2 = content_data

\* C27 as stated: the description taken from the Secondary API payload is
\* searched first in the entries of the data.products, data.cards and
\* data.list lists, then in the data object itself, then in the top-level
\* payload; a non-blank match at an earlier location always wins.
C27_ListsThenDataThenTop ==
    ContentConsulted => result.description = FirstFound(ListsDataTop(content_data))

\* C27 amended: the top-level description field of the payload is looked at
\* first and wins when it is a non-blank string; then come the entries of
\* data.products, data.cards and data.list, the data object, and the
\* depth-first search of the top-level payload.
C27_DirectThenListsDataTop ==
    ContentConsulted
    => result.description
         = FirstFound(<<DirectField(content_data)>> \o ListsDataTop(content_data))

C27_Witness ==
    /\ ContentConsulted
    /\ content_data = ContentTopAndEntry
    /\ EntriesAt(content_data, "products") = JStr(<<"E", "n", "t", "r", "y">>)
    /\ result.description = JStr(<<"T", "o", "p">>)

-----------------------------------------------------------------------------
(* Image URLs and the identifier of the record *)

\* the usable entries of the primary object's images list: its non-blank
\* strings, trimmed
UsableImages ==
    IF PrimaryObject = None \/ ~IsSequence(Get(PrimaryObject, "images")) THEN <<>>
    ELSE LET kept == SelectSeq(Get(PrimaryObject, "images").items, IsNonBlankStr)
         IN  [i \in 1..Len(kept) |-> JStr(Strip(kept[i].s))]

\* a count field: its integer value, 0 when it is missing or unparseable
CountOf(value) == IF ParsedInt(value) = None THEN 0 ELSE ParsedInt(value).n

PicsCount == IF PrimaryObject = None THEN 0 ELSE CountOf(Get(PrimaryObject, "pics"))

MediaPhotoCount ==
    IF IsMapping(Get(info_card, "media"))
    THEN CountOf(Get(Get(info_card, "media"), "photo_count"))
    ELSE 0

\* the primary object's id is not the number that makes the id conversion fail
IdConverts == PrimaryObject = None \/ Get(PrimaryObject, "id") # JInf

\* the counts are not the number that makes the count conversion fail
CountsConvert ==
    /\ PrimaryObject = None \/ Get(PrimaryObject, "pics") # JInf
    /\ ~IsMapping(Get(info_card, "media"))
       \/ Get(Get(info_card, "media"), "photo_count") # JInf

\* C28: image_urls is the explicit image list of the primary object when
\* that list has at least one usable entry; otherwise it holds exactly
\* max(pics, photo_count) synthesized URLs, numbered 1..count in order, pics
\* coming from the primary object and photo_count from the Shard JSON media
\* object (a missing or unparseable count counts as 0), and it is empty when
\* that maximum is zero; e.g. pics = 2 and photo_count = 3 give 3 URLs.
C28_ImageUrls ==
    (MergeOver /\ IdConverts)
    => /\ pc = "done"
       /\ IF UsableImages # <<>> THEN result.image_urls = UsableImages
          ELSE /\ Len(result.image_urls) = Max(0, Max(PicsCount, MediaPhotoCount))
               /\ \A i \in 1..Len(result.image_urls) :
                     /\ result.image_urls[i].t = "url"
                     /\ result.image_urls[i].index = i
                     /\ result.image_urls[i].nm = extract_nm(nm_id).v.n

\* C29: the record's id equals the primary object's own id field whenever
\* that field is parseable as an integer, even if it differs from the input
\* identifier; otherwise it equals the normalized input identifier.
C29_RecordId ==
    (MergeOver /\ CountsConvert)
    => /\ pc = "done"
       /\ result.id = IF PrimaryObject # None /\ ParsedInt(Get(PrimaryObject, "id")) # None
                      THEN ParsedInt(Get(PrimaryObject, "id"))
                      ELSE extract_nm(nm_id).v

-----------------------------------------------------------------------------
(* Successful attempts *)

\* a response with a status below 400 and a syntactically valid JSON body
ValidJsonResponse(resp) ==
    resp.kind = "http" /\ resp.status < 400 /\ resp.body # NotJson

\* the last thing get_card_api did was a request that printed no failure
\* warning and let no exception out
QuietLastRequest ==
    /\ entry = "get_card_api"
    /\ LogOf("card") # <<>>
    /\ LogOf("card")[Len(LogOf("card"))].e = "req"
    /\ warning = "none"
    /\ pc # "raised"

\* C31: a response with an HTTP status below 400 and a syntactically valid
\* JSON body, whatever JSON value that body decodes to, always counts as a
\* successful attempt: _single_request does not report it as absent, and
\* _request_with_retries returns after that attempt without sleeping or
\* issuing another request.
C31_ValidJsonIsSuccess ==
    QuietLastRequest
    => /\ LogOf("card")[Len(LogOf("card"))].ok
       /\ pc = "done"
       /\ \A resp \in Responses("card") :
             ValidJsonResponse(resp) => _single_request(resp).data # None

-----------------------------------------------------------------------------
(* Prices derived from the sizes list *)

SizesEntries ==
    IF PrimaryObject # None /\ IsSequence(Get(PrimaryObject, "sizes"))
    THEN Get(PrimaryObject, "sizes").items
    ELSE <<>>

\* the nested price object of a sizes entry, None if it has none
PriceObject(e) ==
    IF IsMapping(e) /\ IsMapping(Get(e, "price")) THEN Get(e, "price") ELSE None

BasicOf(price_info) == ParsedInt(Get(price_info, "basic"))

SaleOf(price_info) ==
    IF Get(price_info, "product") # None
    THEN ParsedInt(Get(price_info, "product"))
    ELSE ParsedInt(Get(price_info, "total"))

GivesPrice(price_info) == BasicOf(price_info) # None \/ SaleOf(price_info) # None

WithPriceObject == {i \in 1..Len(SizesEntries) : PriceObject(SizesEntries[i]) # None}

WithPriceValue ==
    {i \in WithPriceObject : GivesPrice(PriceObject(SizesEntries[i]))}

\* price and sale price filled from the entry at the smallest position of
\* `positions`, where they are absent from the primary object
FilledFrom(positions) ==
    LET first == IF positions = {} THEN 0 ELSE CHOOSE i \in positions : \A j \in positions : i <= j
        basic == IF first = 0 THEN None ELSE BasicOf(PriceObject(SizesEntries[first]))
        sale == IF first = 0 THEN None ELSE SaleOf(PriceObject(SizesEntries[first]))
    IN  /\ Get(PrimaryObject, "priceU") = None => result.price = basic
        /\ Get(PrimaryObject, "salePriceU") = None => result.sale_price = sale

PriceMissing ==
    /\ MergeReturned
    /\ PrimaryObject # None
    /\ \/ Get(PrimaryObject, "priceU") = None
       \/ Get(PrimaryObject, "salePriceU") = None

-----------------------------------------------------------------------------
(* The threshold-table locator against the arithmetic-only one *)

ArithmeticReturned ==
    entry = "wildberries_client._guess_basket_hosts" /\ pc = "done"

\* C33: the two locators can disagree: for volume 0 the arithmetic one
\* returns [9, 1, 2] while the threshold one returns a list that starts with
\* host 1, and there are volumes >= 0 (beyond 0 too) on which their first
\* candidates differ.
C33_LocatorsDisagree ==
    /\ (ArithmeticReturned /\ volume = 0)
       => /\ result = <<9, 1, 2>>
          /\ _guess_basket_hosts(volume)[1] = 1
          /\ \E v \in 1..MaxVol :
                _guess_basket_hosts(v)[1] # wildberries_client_guess_basket_hosts(v)[1]
    /\ (HostsReturned /\ volume = 0)
       => /\ result[1] = 1
          /\ wildberries_client_guess_basket_hosts(volume) = <<9, 1, 2>>

C33_Witness ==
    /\ ArithmeticReturned
    /\ volume = 0
    /\ result = <<9, 1, 2>>
    /\ _guess_basket_hosts(volume) = <<1, 2, 3>>

\* a positive volume on which the first candidates differ
C33_DisagreeAbove0 ==
    /\ HostsReturned
    /\ volume > 0
    /\ result[1] # wildberries_client_guess_basket_hosts(volume)[1]

-----------------------------------------------------------------------------
(* Requests and sleeps of one pipeline run *)

AllRequests == SelectSeq(log, LAMBDA ev : ev.e = "req")
AllSleeps == SelectSeq(log, LAMBDA ev : ev.e = "sleep")

RequestBudget ==
    /\ Len(ReqsOf("card")) <= 4
    /\ Len(ReqsOf("info")) <= 4
    /\ Len(ReqsOf("content")) <= 8
    /\ Len(AllRequests) <= 16
    /\ Len(AllSleeps) <= 9

\* every step of a run is a request, a sleep or the start or end of a getter:
\* the number of steps left is bounded, so a run cannot go on for ever
PipelineOver == pc \in {"done", "raised"}

\* C34: for every valid identifier and every failure pattern one pipeline run
\* issues at most 16 requests (at most 4 primary, 4 Shard probes, 8 Secondary)
\* and at most 9 sleeps, and it ends by returning a record.
C34_BoundedThenReturns ==
    (entry = "fetch_product_raw" /\ ValidInput)
    => /\ RequestBudget
       /\ PipelineOver => (pc = "done" /\ result # None)

-----------------------------------------------------------------------------
(* Progress of a batch *)

\* the event loop runs every task that is ready: a pipeline that was admitted
\* ends, a task waiting for a free permit is admitted, and gather is resumed
\* when its tasks are done
SpecBatchFair == InitBatch /\ [][NextBatch]_vars /\ WF_vars(NextBatch)

TasksCreated == pc \notin {"collect_product_records", "collect_product_records_sync"}

\* every task was admitted and its pipeline has ended
AllPipelinesOver ==
    /\ TasksCreated
    /\ Len(tasks) = Len(nm_ids)
    /\ \A i \in DOMAIN tasks : tasks[i].st \in {"done", "raised"}

\* C35: with a concurrency limit of at least 1 and pipelines that all end,
\* every submitted identifier's pipeline is eventually admitted and ends,
\* every permit is back in the semaphore once the pipelines are over (also
\* when one of them raised), and collect_product_records eventually returns.
C35_BatchCompletes ==
    (entry = "collect_product_records" /\ concurrency >= 1)
    => /\ <>AllPipelinesOver
       /\ [](AllPipelinesOver => sem = concurrency)
       /\ <>(pc = "done")

-----------------------------------------------------------------------------
(* The batch writers *)

WriterReturned == entry \in WriterEntries /\ pc = "done"

\* the inputs whose pipeline ended by raising: fetch_one gave no record
FailedInputs == {i \in DOMAIN tasks : tasks[i].st = "done" /\ tasks[i].out = None}

\* the results that gave a line, in the order they were taken
LinesOf(order) ==
    LET records == SelectSeq(order, LAMBDA i : i \notin FailedInputs)
    IN  [k \in 1..Len(records) |-> tasks[records[k]].out]

\* C37: both batch writers process every input exactly once: when a writer
\* has returned, success_count + error_count is the number of inputs, the
\* file holds exactly success_count lines, one per pipeline that gave a
\* record, and every pipeline that raised counts as one error; an exception
\* of a pipeline never leaves the writer and the inputs after it are still
\* processed.
C37_WritersCountEveryInput ==
    entry \in WriterEntries
    => /\ pc # "raised"
       /\ Len(stream) = success_count
       /\ WriterReturned
          => /\ result = <<success_count, error_count>>
             /\ success_count + error_count = Len(nm_ids)
             /\ Len(finished) = Len(nm_ids)
             /\ \A i \in DOMAIN nm_ids : \E k \in DOMAIN finished : finished[k] = i
             /\ error_count = Cardinality(FailedInputs)
             /\ stream = LinesOf(finished)

C37_Witness ==
    /\ WriterReturned
    /\ entry = "write_products_to_jsonl"
    /\ Len(nm_ids) = 3
    /\ result = <<2, 1>>
    /\ tasks[finished[1]].out = None
    /\ Len(stream) = 2

-----------------------------------------------------------------------------
(* A concurrency limit of 0 *)

\* the batch functions that admit their pipelines through a semaphore
SemaphoreEntries == {"collect_product_records", "write_products_to_jsonl"}

NoneAdmitted == \A i \in DOMAIN tasks : tasks[i].st = "created"

BatchOver == pc \in {"done", "raised"}

\* every pipeline waits for a permit and the caller waits for the pipelines
AllWaiting ==
    /\ pc \in {"gather", "as_completed"}
    /\ Len(tasks) = Len(nm_ids)
    /\ NoneAdmitted
    /\ sem = 0

\* C36: with a concurrency limit of 0 no pipeline is ever admitted: the batch
\* never completes and reports no error.
C36_ZeroLimitNeverCompletes ==
    (entry \in SemaphoreEntries /\ concurrency = 0)
    => [](NoneAdmitted /\ ~BatchOver)

\* C36, amended: with a concurrency limit of 0 and at least one identifier
\* submitted no pipeline is ever admitted, the batch never completes and
\* reports no error, and it ends up with every pipeline waiting for a permit
\* for ever; an empty batch completes at once.
C36_ZeroLimitDeadlocks ==
    /\ (entry \in SemaphoreEntries /\ concurrency = 0 /\ nm_ids # <<>>)
       => /\ [](NoneAdmitted /\ ~BatchOver)
          /\ <>[]AllWaiting
    /\ (entry \in SemaphoreEntries /\ concurrency = 0 /\ nm_ids = <<>>)
       => <>(pc = "done")

C36_Witness ==
    /\ entry = "write_products_to_jsonl"
    /\ concurrency = 0
    /\ Len(nm_ids) = 2
    /\ AllWaiting

-----------------------------------------------------------------------------
(* The loader: load_raw_products.py *)

\* largest product id, longest input file and latest clock value explored
MaxId == 2
MaxLines == 2
MaxClock == 3

\* the ids of an input file are all numbers or all strings; 0 is the id that
\* read_jsonl takes for a missing one
LoaderIds ==
    [int |-> {JInt(n) : n \in 0..MaxId},
     str |-> {JStr(DigitsOfNat(n)) : n \in 1..MaxId}]

\* a line of the input: name and description are long enough
LoaderRecords(kind) == [id : LoaderIds[kind], price : {JInt(0), JInt(100)}]

InputFiles ==
    UNION {[1..n -> LoaderRecords(kind)] : n \in 0..MaxLines, kind \in {"int", "str"}}

\* read_jsonl: the lines with an id and a price that is neither None nor 0
read_jsonl(lines) ==
    SelectSeq(lines, LAMBDA record : Truthy(record.id) /\ record.price # JInt(0))

\* dataframe["id"].astype("string")
IdStr(value) == IF IsStr(value) THEN value.s ELSE PyStr(value)

\* drop_duplicates(subset=[ID_STR_COLUMN], keep="last")
RECURSIVE DropDuplicates(_, _)
DropDuplicates(records, i) ==
    IF i > Len(records) THEN <<>>
    ELSE IF \E j \in (i + 1)..Len(records) : IdStr(records[j].id) = IdStr(records[i].id)
    THEN DropDuplicates(records, i + 1)
    ELSE <<records[i]>> \o DropDuplicates(records, i + 1)

\* deduped_df.loc[~deduped_df[ID_STR_COLUMN].isin(existing_ids)]
RowsToWrite(deduped, existing_ids) ==
    SelectSeq(deduped, LAMBDA row : IdStr(row.id) \notin existing_ids)

\* load_state_ids: the ids of the state file, none if there is no such file
load_state_ids(state) == IF state.exists THEN state.ids ELSE {}

\* ds.write_dataset with basename_template part-<clock>-{i}.parquet and
\* existing_data_behavior = "overwrite_or_ignore": a file of that name is
\* replaced, the other files stay
write_dataset(files, clock, rows) ==
    {f \in files : f.name # clock} \cup {[name |-> clock, rows |-> rows]}

\* main, from the arguments to `return 0`
LoaderRun(append, lines, clock) ==
    LET deduped == DropDuplicates(read_jsonl(lines), 1)
        existing_ids == IF append THEN load_state_ids(state_file) ELSE {}
        kept_files == IF append THEN dataset ELSE {}
        state_exists == append /\ state_file.exists
        rows_to_write == RowsToWrite(deduped, existing_ids)
        new_row_id_strings == {IdStr(rows_to_write[i].id) : i \in DOMAIN rows_to_write}
    IN  /\ dataset' = IF rows_to_write # <<>>
                      THEN write_dataset(kept_files, clock, rows_to_write)
                      ELSE kept_files
        /\ state_file' = IF rows_to_write # <<>> \/ ~state_exists
                         THEN [exists |-> TRUE, ids |-> existing_ids \cup new_row_id_strings]
                         ELSE state_file
        /\ now' = clock
        /\ last_run' = [completed |-> TRUE, append |-> append,
                        existing_ids |-> existing_ids, written |-> rows_to_write]

\* one completed run on the output directory; the clock does not go back,
\* and it need not have advanced since the run before
main ==
    /\ pc = "load_raw_products"
    /\ \E append \in BOOLEAN, lines \in InputFiles, clock \in Max(now, 1)..MaxClock :
          LoaderRun(append, lines, clock)
    /\ UNCHANGED <<entry, nm_id, pc, attempt, idx, log, card_data, info_card,
                   content_data, result, raised, warning, calls, volume>>
    /\ UNCHANGED <<nm_ids, concurrency, sem, tasks, finished, writer_vars>>

InitLoad ==
    /\ entry = "load_raw_products"
    /\ pc = "load_raw_products"
    /\ NoOutputDirectory
    /\ nm_id = None
    /\ result = None
    /\ raised = "none"
    /\ attempt = 0
    /\ idx = 0
    /\ log = <<>>
    /\ card_data = None
    /\ info_card = None
    /\ content_data = None
    /\ warning = "none"
    /\ calls = NoCalls
    /\ volume = 0
    /\ nm_ids = <<>>
    /\ concurrency = 0
    /\ sem = 0
    /\ tasks = <<>>
    /\ finished = <<>>
    /\ success_count = 0
    /\ error_count = 0
    /\ stream = <<>>

NextLoad == main

SpecLoad == InitLoad /\ [][NextLoad]_vars

\* the rows of the dataset, as (file, position) pairs, and their ids
RowKeys == {<<f, i>> : f \in dataset, i \in 1..MaxLines}
DatasetRows == {key \in RowKeys : key[2] <= Len(key[1].rows)}
RowId(key) == IdStr(key[1].rows[key[2]].id)
DatasetIds == {RowId(key) : key \in DatasetRows}

\* C38: after any sequence of completed runs on the same output directory no
\* product id occurs in more than one row of the dataset and the ids of the
\* state file are exactly the ids of the rows of the dataset; an append run
\* never writes a row whose id is in the state; a run without --append
\* starts from an empty dataset and an empty state.
C38_DatasetMatchesState ==
    (entry = "load_raw_products" /\ last_run.completed)
    => /\ \A k1, k2 \in DatasetRows : RowId(k1) = RowId(k2) => k1 = k2
       /\ state_file.exists
       /\ state_file.ids = DatasetIds
       /\ \A i \in DOMAIN last_run.written :
             IdStr(last_run.written[i].id) \notin last_run.existing_ids
       /\ ~last_run.append
          => /\ last_run.existing_ids = {}
             /\ DatasetIds = {IdStr(last_run.written[i].id) : i \in DOMAIN last_run.written}

-----------------------------------------------------------------------------
(* Catalog discovery: fetch_catalog_page of wb_discovery.py *)

\* seconds slept after a 429
RATE_LIMIT_SLEEP == 1

\* CATALOG_BASE_PARAMS["regions"] and CATALOG_FALLBACK_REGIONS
region_attempts == <<"80", "80,64,83,4,38,33,70,82,86,75,69,68,30,48,22,1,66,31,40">>

CatalogStatuses == {200, 429, 500}

\* Content-Type headers; JsonContentTypes are those with "application/json" in them
ContentTypes == {"application/json", "application/json; charset=utf-8", "text/html"}
JsonContentTypes == {"application/json", "application/json; charset=utf-8"}

CatalogPayload(items) == Dict1("data", Dict1("products", JList(items)))

CatalogBodies ==
    {NotJson,
     CatalogPayload(<<Dict1("id", JInt(1)), Dict1("id", JStr(<<"2">>))>>),
     CatalogPayload(<<Dict1("id", JStr(<<"x">>)), JInt(5)>>),
     CatalogPayload(<<>>),
     Dict1("data", EmptyDict),
     Dict1("payload", EmptyDict),
     JList(<<>>),
     None}

CatalogResponses ==
    {[kind |-> "transport", status |-> 0, content_type |-> "", body |-> NotJson]}
    \cup [kind : {"http"}, status : CatalogStatuses, content_type : ContentTypes,
          body : CatalogBodies]

\* _extract_ids: the id of every product that is an int, or a string of digits
_extract_ids(products) ==
    LET IsId(v) == IsInt(v) \/ (IsStr(v) /\ AllDecimal(v.s))
        IdOf(v) == IF IsInt(v) THEN v.n ELSE DecimalValue(v.s, 0)
    IN  {IdOf(Get(products[i], "id")) : i \in {j \in DOMAIN products : IsId(Get(products[j], "id"))}}

\* `product for product in products if isinstance(product, Mapping)`
MappingsOf(products) == SelectSeq(products, IsMapping)

CatalogReturn(ids, success, slept) ==
    [kind |-> "return", ids |-> ids, success |-> success, slept |-> slept]

\* a response without products: the fallback regions are tried after the
\* first request, the loop is left after the second
NoProducts(index) ==
    IF index = 0 /\ Len(region_attempts) > 1
    THEN [kind |-> "continue", ids |-> {}, success |-> TRUE, slept |-> FALSE]
    ELSE CatalogReturn({}, TRUE, FALSE)

\* one pass of the loop of fetch_catalog_page on the response `resp`
CatalogPass(resp, index) ==
    IF resp.kind = "transport" THEN CatalogReturn({}, FALSE, FALSE)
    ELSE IF resp.status = 429 THEN CatalogReturn({}, FALSE, TRUE)
    ELSE IF resp.status >= 400 THEN CatalogReturn({}, FALSE, FALSE)
    ELSE IF resp.content_type \notin JsonContentTypes THEN CatalogReturn({}, FALSE, FALSE)
    ELSE IF resp.body = NotJson THEN CatalogReturn({}, FALSE, FALSE)
    ELSE IF ~IsMapping(resp.body)
    THEN [kind |-> "raise", ids |-> {}, success |-> FALSE, slept |-> FALSE]
    ELSE IF ~IsMapping(Get(resp.body, "data")) THEN NoProducts(index)
    ELSE IF ~IsSequence(Get(Get(resp.body, "data"), "products")) THEN NoProducts(index)
    ELSE LET ids == _extract_ids(MappingsOf(Get(Get(resp.body, "data"), "products").items))
         IN  IF ids # {} THEN CatalogReturn(ids, TRUE, FALSE) ELSE NoProducts(index)

CatalogEvents(resp, index, slept) ==
    <<[e |-> "req", src |-> "catalog", n |-> index, regions |-> region_attempts[index + 1],
       resp |-> resp]>>
    \o IF slept THEN <<[e |-> "sleep", src |-> "catalog", n |-> RATE_LIMIT_SLEEP]>> ELSE <<>>

InitCatalog ==
    /\ entry = "fetch_catalog_page"
    /\ pc = "fetch_catalog_page"
    /\ nm_id = None
    /\ result = None
    /\ raised = "none"
    /\ attempt = 0
    /\ idx = 0
    /\ log = <<>>
    /\ card_data = None
    /\ info_card = None
    /\ content_data = None
    /\ warning = "none"
    /\ calls = NoCalls
    /\ volume = 0
    /\ nm_ids = <<>>
    /\ concurrency = 0
    /\ sem = 0
    /\ tasks = <<>>
    /\ finished = <<>>
    /\ success_count = 0
    /\ error_count = 0
    /\ stream = <<>>
    /\ NoOutputDirectory

\* fetch_catalog_page, up to the loop
fetch_catalog_page ==
    /\ pc = "fetch_catalog_page"
    /\ pc' = "for_regions"
    /\ idx' = 0
    /\ UNCHANGED <<entry, nm_id, attempt, log, card_data, info_card, content_data,
                   result, raised, warning, calls, volume, batch_vars>>

\* one pass of `for index, regions in enumerate(region_attempts)`: the
\* request, the sleep after a 429, and the return or the next pass
CatalogRequest ==
    /\ pc = "for_regions"
    /\ \E resp \in CatalogResponses :
          LET pass == CatalogPass(resp, idx)
          IN  /\ log' = log \o CatalogEvents(resp, idx, pass.slept)
              /\ CASE pass.kind = "return" ->
                         /\ pc' = "done"
                         /\ result' = [ids |-> pass.ids, success |-> pass.success]
                         /\ UNCHANGED <<idx, raised>>
                    [] pass.kind = "raise" ->
                         /\ pc' = "raised"
                         /\ raised' = "AttributeError"
                         /\ UNCHANGED <<idx, result>>
                    [] pass.kind = "continue" ->
                         /\ idx' = idx + 1
                         /\ UNCHANGED <<pc, result, raised>>
    /\ UNCHANGED <<entry, nm_id, attempt, card_data, info_card, content_data,
                   warning, calls, volume, batch_vars>>

NextCatalog == fetch_catalog_page \/ CatalogRequest

SpecCatalog == InitCatalog /\ [][NextCatalog]_vars

CatalogRequests == ReqsOf("catalog")
CatalogOver == entry = "fetch_catalog_page" /\ pc \in {"done", "raised"}

\* the response is one of the failures the call gives up on
CatalogFailure(resp) ==
    \/ resp.kind = "transport"
    \/ resp.status >= 400
    \/ resp.content_type \notin JsonContentTypes
    \/ resp.body = NotJson

\* the ids a decoded body holds
HeldIds(body) ==
    IF ~IsMapping(body) THEN {}
    ELSE IF ~IsMapping(Get(body, "data")) THEN {}
    ELSE IF ~IsSequence(Get(Get(body, "data"), "products")) THEN {}
    ELSE _extract_ids(MappingsOf(Get(Get(body, "data"), "products").items))

\* C39: fetch_catalog_page issues at most two requests per page, the second
\* one (fallback regions) only if the first was decoded and held no ids; a
\* transport error, a status 429 (after one sleep of RATE_LIMIT_SLEEP), a
\* status >= 400, a content type that is not JSON or a body that does not
\* decode, on any request, ends the call with (empty set, False); the call
\* returns (ids, True) as soon as a response holds ids and (empty set, True)
\* when the responses were decoded and held no ids.
C39_CatalogPage ==
    entry = "fetch_catalog_page"
    => /\ Len(CatalogRequests) <= 2
       /\ Len(CatalogRequests) = 2
          => /\ ~CatalogFailure(CatalogRequests[1].resp)
             /\ HeldIds(CatalogRequests[1].resp.body) = {}
             /\ CatalogRequests[2].regions = region_attempts[2]
       /\ Len(SleepsOf("catalog")) <= 1
       /\ CatalogOver
          => LET last == CatalogRequests[Len(CatalogRequests)].resp
             IN  /\ pc = "done"
                 /\ result = IF CatalogFailure(last) THEN [ids |-> {}, success |-> FALSE]
                             ELSE [ids |-> HeldIds(last.body), success |-> TRUE]
                 /\ Len(SleepsOf("catalog")) = 1
                    <=> (last.kind = "http" /\ last.status = 429)

====
